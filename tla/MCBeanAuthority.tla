-------------------------- MODULE MCBeanAuthority --------------------------
(* Small instances of the bean authority. *)
EXTENDS BeanAuthority, TLC
CONSTANTS alice, m1, m2
Interchangeable == Permutations({m1, m2})
=============================================================================
