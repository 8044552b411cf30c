----------------------------- MODULE MCCatalogue -----------------------------
(* Small instances of Catalogue for TLC.                                   *)
EXTENDS Catalogue

CONSTANTS c1, c2

Made(i, user, image, gpu) ==
    [instance |-> i, user |-> user, spec |-> [image |-> image, gpu |-> gpu]]

Twins == {"u", "v"}
TwoSpecs == [image : {"a", "b"}, gpu : {1}]

\* Three instances of two users, the first published twice with different contents.
Creations == {Made(1, "u", "a", 1), Made(1, "v", "b", 1), Made(2, "u", "b", 1),
              Made(3, "u", "a", 1)}

\* A window in time with a field mask, a type nothing has, and an unknown path.
Asked == {[NoQuery EXCEPT !.type = Status, !.start = 1, !.end = 1, !.mask = {"name"}],
          [NoQuery EXCEPT !.type = "RUNNING"],
          [NoQuery EXCEPT !.user = "u", !.mask = {"name", "size"}]}
Watching == [c \in Clients |-> "u"]
=============================================================================
