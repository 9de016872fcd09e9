---------------------------- MODULE ArchiveFiles ----------------------------
(***************************************************************************)
(* What reimporting promises: an archive is a table of named files, and a  *)
(* run replaces those that are in the folder by what they are there        *)
(* (readme.md:355-434), one at a time.  Only a run that stops while it     *)
(* changes the size of a file leaves that one file broken.                 *)
(***************************************************************************)
EXTENDS Naturals, Sequences, TLC

CONSTANT Contents   \* what a file may be edited to

VARIABLES
    files, folder,
    resizes,    \* reimport2 and 3: a file may change its size
    stops       \* runs may stop anywhere

vars == <<files, folder, resizes, stops>>

Zeros(n) == [k \in 1 .. n |-> 0]

\* A file of the same size, or a shorter one that is filled up.
Import(n) ==
    /\ ~resizes /\ n \in DOMAIN files /\ Len(folder[n]) <= Len(files[n])
    /\ files' = [files EXCEPT ![n] = folder[n] \o Zeros(Len(@) - Len(folder[n]))]
    /\ UNCHANGED folder

\* A file of any size, also in the place of a broken one.
Replace(n) ==
    /\ resizes
    /\ files' = (n :> folder[n]) @@ files
    /\ UNCHANGED folder

Break(n) ==
    /\ resizes /\ stops
    /\ \A k \in (DOMAIN files \cup DOMAIN files') \ {n} :
          k \in DOMAIN files /\ k \in DOMAIN files' /\ files'[k] = files[k]
    /\ UNCHANGED folder

\* The user edits a file that was refused.
Edit(n) ==
    /\ \E c \in Contents : folder' = [folder EXCEPT ![n] = c]
    /\ UNCHANGED files

Next ==
    /\ UNCHANGED <<resizes, stops>>
    /\ \E n \in DOMAIN folder : Import(n) \/ Replace(n) \/ Break(n) \/ Edit(n)

Spec == [][Next]_vars
=============================================================================
