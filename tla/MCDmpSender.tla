----------------------------- MODULE MCDmpSender -----------------------------
(***************************************************************************)
(* A wrapper with room for 34 bytes, two members of one channel and one of another;   *)
(* addresses of five bits whose fields are 1, 2 or 4 bytes long.  After    *)
(* the first packet only short beginnings of the next are explored: what   *)
(* the first may leave behind in the handle shows in its first messages.   *)
(***************************************************************************)
EXTENDS DmpSender

MCMembers == {[ch |-> "c1", mid |-> 1, back |-> 7], [ch |-> "c1", mid |-> 2, back |-> 8],
              [ch |-> "c2", mid |-> 1, back |-> 9]}
MCBodies  == {[body |-> "x", len |-> 3], [body |-> "y", len |-> 9]}
MCFlags   == {{"on"}, {"reply"}, {"all", "noflush"}, {"off", "noack"}, {"on", "noflush"}}
MCAdspecs == {[addr |-> 1, inc |-> 1, count |-> 3], [addr |-> 5, inc |-> 1, count |-> 1],
              [addr |-> 20, inc |-> 2, count |-> 3], [addr |-> 22, inc |-> 1, count |-> 1]}

FirstAndNext ==
  \/ packets = 0
  \/ /\ packets = 1 /\ Len(packet.msgs) <= 2 /\ Len(pdus) <= 1
     /\ user = "sdt" => pdus = <<>> \/ Len(packet.msgs) <= 1
     /\ user = "dmp" => Len(block) <= 1 \/ pdus = <<>> \/ Len(packet.msgs) <= 1
=============================================================================
