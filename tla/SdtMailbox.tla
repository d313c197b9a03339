------------------------------ MODULE SdtMailbox ------------------------------
(***************************************************************************)
(* What the wrapper functions of csrc/sdt.c promise to those who use them: *)
(* a message that is accepted goes out once, to the members it was for,    *)
(* with the protocol and association it was given, in the order of the     *)
(* calls; one that is refused leaves no trace; a message that must be sent *)
(* reliably and one that must not are never in one packet; SDT may put     *)
(* acknowledgements behind the messages of a packet that allows them.      *)
(***************************************************************************)
EXTENDS Naturals, Sequences

CONSTANTS Chans, AckMsgs(_)     \* channels, the acknowledgements on each

VARIABLES
  chan,      \* the channel of the messages in hand
  pending,   \* messages accepted and not yet sent
  kind,      \* what they ask of the packet: "on", "off", "noack"
  call,      \* the last message offered and what was said to it
  packet,    \* the last packet sent
  packets    \* how many there have been

mvars == <<chan, pending, kind, call, packet, packets>>

Mixed(k) == {"on", "off"} \subseteq k

\* The messages go out on their channel, acknowledgements behind them.
Sent(c, msgs, k) ==
  /\ packets' = packets + 1
  /\ packet'.chan = c /\ packet'.reliable = ("on" \in k)
  /\ Len(msgs) <= Len(packet'.msgs)
  /\ \A i \in 1 .. Len(msgs) : packet'.msgs[i] = msgs[i]
  /\ \A i \in Len(msgs) + 1 .. Len(packet'.msgs) :
       packet'.msgs[i] \in AckMsgs(c) /\ "noack" \notin k

Init == pending = <<>> /\ kind = {} /\ packets = 0

Accepted(msgs, k) ==
  /\ call'.ok
  /\ pending' = Append(msgs, call'.msg) /\ kind' = k \cup call'.kind /\ ~ Mixed(kind')

\* One more message for the packet in hand ...
Post ==
  /\ Accepted(pending, kind)
  /\ (pending # <<>> => chan' = chan)
  /\ UNCHANGED <<packet, packets>>

\* ... or for the next one, when it does not go with those in hand.
PostAfresh == Sent(chan, pending, kind) /\ Accepted(<<>>, {})

Refuse ==
  /\ ~ call'.ok /\ UNCHANGED <<pending, kind, packet, packets>>
  /\ (pending # <<>> => chan' = chan)

Transmit == Sent(chan, pending, kind) /\ pending' = <<>> /\ kind' = {}

\* A packet with nothing but acknowledgements; the messages in hand stay.
Beat == (\E c \in Chans : Sent(c, <<>>, {})) /\ UNCHANGED <<chan, pending, kind, call>>

\* With no message in hand the handle may be given another channel.
Prepare == pending = <<>> /\ UNCHANGED <<pending, kind, call, packet, packets>>

Next == Post \/ PostAfresh \/ Refuse \/ Transmit \/ Beat \/ Prepare

Spec == Init /\ [][Next]_mvars
=============================================================================
