------------------------------ MODULE DmpSender ------------------------------
(***************************************************************************)
(* DMP's transmit context (csrc/dmp.c, struct dmptcxt_s): blocks of DMP    *)
(* PDUs built inside the wrapper of SdtWrapper, each PDU for one address   *)
(* or a range, given relative to the last one where that is smaller.  The  *)
(* receiver (dmp_sdtRx, rx_devvec, rx_ctlvec) starts each block from       *)
(* address 0 and keeps its own account of the last address.                *)
(*                                                                         *)
(* A behaviour is the life of one wrapper handle: SDT's own, or the        *)
(* txwrap of a DMP context.  A call of dmp_openpdu that has to close the   *)
(* block and begin another takes several steps; no other call begins       *)
(* before it is done.  Addresses are modulo Modulus (2^32); below Limit1   *)
(* they fit one byte and below Limit2 two.                                 *)
(***************************************************************************)
EXTENDS SdtWrapper

CONSTANTS
  Modulus, Limit1, Limit2,
  Adspecs,      \* [addr, inc, count] that callers ask for
  Sizes,        \* the size they give to dmp_openpdu
  DmpFlags,     \* wflags of the contexts
  MaxDmp,       \* bound on the PDUs of a block
  Users         \* "sdt", "dmp": whose handle it may be

Addresses == 0 .. Modulus - 1
Adspec    == [addr : Addresses, inc : Addresses, count : Addresses \ {0}]

\* A DMP PDU: the address as it is written and as it was meant.
DmpPDU == [rel : BOOLEAN, ads : Adspec, bytes : Nat, meant : Adspec, size : Nat]

ASSUME DmpAssumption ==
  /\ Limit1 \in Nat /\ Limit2 \in Nat /\ Modulus \in Nat \ {0} /\ Limit1 <= Limit2
  /\ Adspecs \subseteq Adspec
  /\ Sizes \subseteq Nat /\ DmpFlags \subseteq Flags /\ MaxDmp \in Nat
  /\ Users \subseteq {"sdt", "dmp"} /\ "DMP" \in Protos
  /\ Same \notin [body : Seq(DmpPDU), len : Nat] /\ Same # [st |-> "flush"]

VARIABLES
  user,       \* whose handle it is
  block,      \* the closed DMP PDUs of the block; it is open when `open' is
  used,       \* their bytes
  lastaddr,   \* tcxt->lastaddr
  asked       \* the PDU that is wanted or written, or Same

dvars == <<user, block, used, lastaddr, asked>>

DMP_OFS_DATA == OFS_VECTOR + 2      \* one byte each for vector and header
DMP_SDT_MAXDATA == Room - OFS_CB_PDU1DATA - DMP_OFS_DATA

Mod(n) == n % Modulus
LastOf(ads) == Mod(ads.addr + ads.inc * (ads.count - 1))

\* Bytes of each address field.
Width(v) == IF v < Limit1 THEN 1 ELSE IF v < Limit2 THEN 2 ELSE 4
Widest(ads) == LET w == {Width(ads.addr), Width(ads.inc), Width(ads.count)}
               IN  CHOOSE x \in w : \A y \in w : x >= y

\* The address PDU for ads after lastaddr: relative if the difference is less.
Encoded(ads, last, size) ==
  LET diff == Mod(ads.addr - last)
      rel  == diff < ads.addr
      a    == [ads EXCEPT !.addr = IF rel THEN diff ELSE @]
  IN  [rel |-> rel, ads |-> a,
       bytes |-> IF ads.count = 1 THEN Width(a.addr) ELSE 3 * Widest(a),
       meant |-> ads, size |-> size]

\* The space checked for: not the PDU's header, and the widest address.
Checked(ads, size) == size + (IF ads.count = 1 THEN 4 ELSE 12)
Length(p) == DMP_OFS_DATA + p.bytes + p.size

BlockOpen == open # Same
Fits(bsize) == used + bsize <= open.told

\* What the receiver makes of a block, from address 0 on.
Reached(b) ==
  LET last[i \in 0 .. Len(b)] ==
        IF i = 0 THEN 0
        ELSE LastOf([b[i].ads EXCEPT !.addr = Mod((IF b[i].rel THEN last[i - 1] ELSE 0) + @)])
  IN  [i \in 1 .. Len(b) |->
        [b[i].ads EXCEPT !.addr = Mod((IF b[i].rel THEN last[i - 1] ELSE 0) + @)]]

-----------------------------------------------------------------------------
dmp_closeblock ==
  /\ endProtoMsg([body |-> block, len |-> used])
  /\ block' = <<>> /\ used' = 0

\* The first part of dmp_openpdu: is the message too long?
openpdu(m, f, ads, size) ==
  /\ asked = Same /\ Len(block) < MaxDmp
  /\ Checked(ads, size) <= DMP_SDT_MAXDATA
  /\ asked' = [st |-> "wait", m |-> m, f |-> f, ads |-> ads, size |-> size]
  /\ UNCHANGED <<vars, user, block, used, lastaddr>>

Waiting == asked # Same /\ asked.st = "wait"

\* dmp_newblock is called when there is no block or no space in it.
closefull ==
  /\ Waiting /\ BlockOpen /\ ~ Fits(Checked(asked.ads, asked.size))
  /\ dmp_closeblock /\ UNCHANGED <<user, lastaddr, asked>>

dmp_newblock_keepsAddr ==
  /\ Waiting /\ ~ BlockOpen
  /\ startProtoMsg(asked.m, "DMP", asked.f, Checked(asked.ads, asked.size))
  /\ asked' = IF open' = Same THEN Same ELSE [asked EXCEPT !.st = "ready"]
  /\ UNCHANGED <<user, block, used, lastaddr>>

dmp_newblock ==
  /\ Waiting /\ ~ BlockOpen
  /\ startProtoMsg(asked.m, "DMP", asked.f, Checked(asked.ads, asked.size))
  /\ lastaddr' = 0
  /\ asked' = IF open' = Same THEN Same ELSE [asked EXCEPT !.st = "ready"]
  /\ UNCHANGED <<user, block, used>>

\* A block just begun has room for the PDU it was begun for.
Ready == asked # Same /\ asked.st = "ready"

dmp_openpdu ==
  /\ Ready \/ (Waiting /\ BlockOpen /\ Fits(Checked(asked.ads, asked.size)))
  /\ asked' = [st |-> "written", p |-> Encoded(asked.ads, lastaddr, asked.size)]
  /\ UNCHANGED <<vars, user, block, used, lastaddr>>

\* A PDU is as long as what was written, which the space checked for may not
\* hold; then the assertion of dmp_closepdu stops the program.
Written == asked # Same /\ asked.st = "written"
InBuffer == Written => used + Length(asked.p) <= open.room

dmp_closepdu ==
  /\ Written /\ InBuffer
  /\ block' = Append(block, asked.p) /\ used' = used + Length(asked.p)
  /\ lastaddr' = LastOf(asked.p.meant) /\ asked' = Same
  /\ UNCHANGED <<vars, user>>

\* The block and all that is in it are forgotten.
dmp_abortblock ==
  /\ Written /\ abandon
  /\ block' = <<>> /\ used' = 0 /\ asked' = Same /\ UNCHANGED <<user, lastaddr>>

\* dmp_flushpdus closes the block; the wrapper goes next.
flushblock ==
  /\ asked = Same /\ BlockOpen
  /\ dmp_closeblock /\ asked' = [st |-> "flush"] /\ UNCHANGED <<user, lastaddr>>

dmp_flushpdus ==
  /\ asked = [st |-> "flush"] \/ (asked = Same /\ ~ BlockOpen)
  /\ flushWrapper /\ asked' = Same /\ UNCHANGED <<user, block, used, lastaddr>>

-----------------------------------------------------------------------------
DmpInit ==
  /\ Init /\ user \in Users
  /\ block = <<>> /\ used = 0 /\ lastaddr = 0 /\ asked = Same

DmpCalls ==
  \/ \E m \in Members, f \in DmpFlags, a \in Adspecs, s \in Sizes : openpdu(m, f, a, s)
  \/ closefull \/ dmp_newblock \/ dmp_openpdu
  \/ dmp_closepdu
  \/ dmp_abortblock \/ flushblock \/ dmp_flushpdus

DmpNext == \/ user = "sdt" /\ Next /\ UNCHANGED dvars
           \/ user = "dmp" /\ DmpCalls

DmpSpec == DmpInit /\ [][DmpNext]_<<vars, dvars>>

-----------------------------------------------------------------------------
(***************************************************************************)
(* Each block of a packet names, to a receiver that reads it from the      *)
(* start, the addresses its PDUs were opened for, although it carries      *)
(* differences (dmp_openpdu, dmp_closepdu, dmp_newblock and rx_devvec,     *)
(* rx_ctlvec, which keep two accounts of the last address).                *)
(***************************************************************************)
AddressesMeant ==
  \A i \in 1 .. Len(packet.msgs) :
    packet.msgs[i].hdr[1] = "DMP" /\ user = "dmp" =>
      LET b == packet.msgs[i].data.body
      IN  Reached(b) = [k \in 1 .. Len(b) |-> b[k].meant]

=============================================================================
