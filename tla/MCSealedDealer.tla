--------------------------- MODULE MCSealedDealer ---------------------------
(* Small instances of the sealed dealer. *)
EXTENDS SealedDealer, TLC
CONSTANTS alice, bob, s1, s2

\* Two players, or one player and a bot.
BotChoices == {{}, {s2}}

Symmetry == Permutations(Users)
=============================================================================
