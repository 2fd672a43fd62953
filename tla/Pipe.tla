-------------------------------- MODULE Pipe --------------------------------
(***************************************************************************)
(* What a connection promises its two applications: in each direction, the *)
(* messages come out in the order in which they went in, none twice, none  *)
(* that was not sent and none after one that is missing.  Some messages at *)
(* the end may never come out.                                             *)
(***************************************************************************)
EXTENDS Integers, Sequences

CONSTANTS Ends,         \* the two ends
          Peer(_),      \* the other end
          Message

VARIABLES sub,          \* sub[r]: the messages that r has sent
          del           \* del[r]: the messages that r has received

Init ==
    /\ sub = [r \in Ends |-> << >>]
    /\ del = [r \in Ends |-> << >>]

Submit(r) ==
    /\ \E msg \in Message : sub' = [sub EXCEPT ![r] = Append(@, msg)]
    /\ UNCHANGED del

Deliver(r) ==
    /\ Len(del[r]) < Len(sub[Peer(r)])
    /\ del' = [del EXCEPT ![r] = Append(@, sub[Peer(r)][Len(@) + 1])]
    /\ UNCHANGED sub

Next == \E r \in Ends : Submit(r) \/ Deliver(r)

Spec == Init /\ [][Next]_<<sub, del>>
=============================================================================
