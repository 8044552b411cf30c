---------------------------- MODULE InstanceLife ----------------------------
(***************************************************************************)
(* The life of an instance as its user sees it, without the queue, the     *)
(* namespaces, the audit log and the handlers that bring it about.  It is  *)
(* recorded once, comes up at most once, running, with the image of one of *)
(* the creations that ask for it; then it is scaled, given other images,   *)
(* and removed for good.  One thing happens to one instance at a time.     *)
(***************************************************************************)
CONSTANTS Instances, Images,
          Asked      \* [Instances -> SUBSET Images]: images of its creations

VARIABLE life

Stage(state, replicas, image) ==
    [state |-> state, replicas |-> replicas, image |-> image]

Absent == Stage("absent", 0, "")
Recorded == Stage("recorded", 0, "")
Running(n, image) == Stage("up", n, image)
Removed == Stage("gone", 0, "")

Becomes(i, stage) == life' = [life EXCEPT ![i] = stage]

Init == life = [i \in Instances |-> Absent]

Record(i) == life[i] = Absent /\ Becomes(i, Recorded)

ComeUp(i) == life[i] = Recorded /\ \E a \in Asked[i] : Becomes(i, Running(1, a))

Scale(i) ==
    \E n, m \in {0, 1}, a \in Images :
        life[i] = Running(n, a) /\ Becomes(i, Running(m, a))

Reimage(i) ==
    \E n \in {0, 1}, a, b \in Images :
        life[i] = Running(n, a) /\ Becomes(i, Running(n, b))

Remove(i) ==
    \E n \in {0, 1}, a \in Images : life[i] = Running(n, a) /\ Becomes(i, Removed)

Next ==
    \E i \in Instances : Record(i) \/ ComeUp(i) \/ Scale(i) \/ Reimage(i) \/ Remove(i)

Spec == Init /\ [][Next]_life
=============================================================================
