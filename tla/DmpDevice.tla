------------------------------ MODULE DmpDevice ------------------------------
(***************************************************************************)
(* Property messages between the demonstration controller and device       *)
(* (demo/controller, demo/device, demo/utils) over the receivers of        *)
(* csrc/dmp.c, once both have the map of the same parsed document          *)
(* (DdlParse).  The device keeps each property in a C array, as device.c   *)
(* does with its bar graph; the controller names an element by its indexes *)
(* and prints what comes back.                                             *)
(*                                                                         *)
(* Messages arrive: SDT, and the blocks and relative addresses of DMP, are *)
(* in SdtReceiver and DmpSender.  A property's value is `size' cells, so   *)
(* that a reader out of step with its data reads something else.           *)
(***************************************************************************)
EXTENDS DdlParse

CONSTANTS
  Ranges,       \* ranges of addresses asked for: ofs from a property's own, inc, count
  CommonData,   \* one value may be sent for a run of elements, or for sizes that differ
  OuterSteps,   \* a run of elements may step along an array with another inside it
  MaxServed     \* bound on the properties of a device that is sent messages

ASSUME DeviceAssumption ==
  /\ Ranges \subseteq [ofs : Int, inc : Nat, count : Nat \ {0}]
  /\ CommonData \in BOOLEAN /\ OuterSteps \in BOOLEAN /\ MaxServed \in Nat

VARIABLES
  held,    \* barvals of each property: <<property, offset>> |-> value, if ever written
  evcxt,   \* "none", "joining": the event channel is open, "member": and connected
  shown,   \* what the controller has printed since `asked'
  asked    \* the last thing asked of the device

devVars == <<held, evcxt, shown, asked>>
allVars == <<vars, devVars>>

-----------------------------------------------------------------------------
\* struct dmpprop_s: size and the access flags.
Size(p) == Head(props[p.prop].at).size
Access(p) == Head(props[p.prop].at).access

\* dim[t].tref: the place in dim of the t-th dimension from the leaf.
tref(p, t) == CHOOSE i \in 1 .. ndims(p) : dim(p)[i] = p.dims[t]

\* The index along each dimension of dim, and what is left over.
Ixs(p, a0) ==
  LET rest[i \in 0 .. ndims(p)] == IF i = 0 THEN a0 ELSE rest[i - 1] % dim(p)[i].inc
  IN  [left |-> rest[ndims(p)],
       at |-> [i \in 1 .. ndims(p) |-> rest[i - 1] \div dim(p)[i].inc]]

\* The dimension a range steps along: the largest increment that divides its own.
incx(p, inc) ==
  LET divides == {i \in 1 .. ndims(p) : inc % dim(p)[i].inc = 0}
  IN  IF divides = {} THEN 0 ELSE CHOOSE i \in divides : \A j \in divides : i <= j

Least(a, b) == IF a < b THEN a ELSE b

\* Mutant: the range is not cut where the dimension ends.
Within_all(p, ads, ix) == IF ndims(p) = 0 \/ incx(p, ads.inc) = 0 THEN 1 ELSE ads.count

\* How many addresses of the range are elements of p.
Within(p, ads, ix) ==
  LET x == incx(p, ads.inc)
  IN  IF x = 0 THEN 1
      ELSE IF ads.inc = 0 THEN ads.count
      ELSE Least((dim(p)[x].cnt - 1 - ix[x]) \div (ads.inc \div dim(p)[x].inc) + 1, ads.count)

\* Row by row, the array nearest the root as the outermost: at[t] is the index
\* in the t-th dimension from the leaf.
Flat(dims, at) ==
  FoldLeft(LAMBDA o, t : o * dims[t].cnt + at[t], 0, Reverse([t \in 1 .. Len(dims) |-> t]))

ByLevel(p, ix) == [t \in 1 .. ndims(p) |-> ix[tref(p, t)]]

\* The dimensions the step in the C array has to pass over, as addr2ofs finds them.
PassedOver(p, x) == {t \in 1 .. ndims(p) - 1 : tref(p, t) < x}

addr2ofs(p, ads) ==
  LET ix == Ixs(p, ads.addr - p.addr)
      x  == incx(p, ads.inc)
  IN  IF ix.left # 0 THEN NULL
      ELSE [addr |-> Flat(p.dims, ByLevel(p, ix.at)), count |-> Within(p, ads, ix.at),
            inc |-> IF x = 0 THEN 0
                    ELSE FoldLeft(LAMBDA n, t : n * p.dims[t].cnt, ads.inc \div dim(p)[x].inc,
                                  SetToSeq(PassedOver(p, x)))]

ofs2addr(p, ofs) ==
  LET left[t \in 0 .. ndims(p)] == IF t = 0 THEN ofs ELSE left[t - 1] \div p.dims[t].cnt
  IN  FoldLeft(LAMBDA a, t : a + (left[t - 1] % p.dims[t].cnt) * p.dims[t].inc,
               p.addr, [t \in 1 .. ndims(p) |-> t])

-----------------------------------------------------------------------------
\* Values.  Until it is written an element holds a value of its own.
Cells(v, n) == [j \in 1 .. n |-> <<v, j>>]
ValueIn(h, p, ofs) ==
  IF <<p.prop, ofs>> \in DOMAIN h THEN h[<<p.prop, ofs>>]
  ELSE Cells(<<"initial", p.prop, ofs>>, Size(p))

\* A value over IMMP_barMax is stored as that.
Clamped(cells) == IF cells[1][1][1] = "over" THEN Cells(<<"max">>, Len(cells)) ELSE cells

\* n cells of data from dp on; what lies behind the data is anything.
Read(data, dp, n) ==
  [j \in 1 .. n |-> IF dp + j - 1 <= Len(data) THEN data[dp + j - 1] ELSE <<<<"beyond">>>>]

SingleFail(vec, addr, why) ==
  [vec |-> vec, multi |-> FALSE, addr |-> addr, inc |-> 1, count |-> 1, data |-> <<<<why>>>>]

declare_bars(h, p, ads, offs, vec) ==
  [vec |-> vec, multi |-> TRUE, addr |-> ads.addr, inc |-> ads.inc, count |-> offs.count,
   data |-> FlattenSeq([k \in 1 .. offs.count |-> ValueIn(h, p, offs.addr + (k - 1) * offs.inc)])]

-----------------------------------------------------------------------------
\* vecflags, failrsp, badaccess: what a message needs, and how it is refused.
Needs == [GET |-> "read", SET |-> "write", SUBSCRIBE |-> "event"]
failrsp == [GET |-> "GET_FAIL", SET |-> "SET_FAIL", SUBSCRIBE |-> "SUBSCRIBE_REJECT"]
badaccess == [GET |-> "NOREAD", SET |-> "NOWRITE", SUBSCRIBE |-> "NOEVENT"]
canaccess(vec, p) == Needs[vec] \in Access(p)

\* The handlers.  d: addr and count still to do, dp in the data, held, the PDUs
\* out to the sender and events to the event channel.
getbar(d, m, p, ads, offs) ==
  [d EXCEPT !.out = Append(@, declare_bars(d.held, p, ads, offs, "GET_REPLY"))]

\* The event is for the whole run, if any value in it is dirty.
setbar(d, m, p, ads, offs) ==
  LET put(b, k) ==
        LET ofs    == offs.addr + k * offs.inc
            newval == Clamped(Read(m.data, d.dp + k * Size(p), Size(p)))
        IN  [vals |-> (<<p.prop, ofs>> :> newval) @@ b.vals,
             dirty |-> b.dirty \/ newval # ValueIn(b.vals, p, ofs)]
      bar == FoldLeft(put, [vals |-> d.held, dirty |-> FALSE], [k \in 1 .. offs.count |-> k - 1])
  IN  [d EXCEPT !.held = bar.vals,
                !.events = IF bar.dirty /\ "event" \in Access(p) /\ evcxt # "none"
                           THEN Append(@, declare_bars(bar.vals, p, ads, offs, "EVENT")) ELSE @]

\* addMember refuses a component that is a member of the event channel already,
\* and the rest of the message is dropped.
subscribebar(d) == IF d.evcxt = "none" THEN [d EXCEPT !.evcxt = "joining"]
                   ELSE [d EXCEPT !.lost = TRUE]

Past(d, inc, n) == [d EXCEPT !.count = @ - n, !.addr = @ + n * inc]
Refuse(d, m, why) == [d EXCEPT !.out = Append(@, SingleFail(failrsp[m.vec], d.addr, why))]

\* The end of an address's data, when its data ends there.
Skip(d, m, n, size) ==
  [d EXCEPT !.dp = @ + (IF m.vec # "SET" THEN 0 ELSE IF m.multi THEN n * size
                        ELSE IF n = d.count THEN size ELSE 0)]

\* rx_devvec, from address to address.
RECURSIVE rx_devvec(_, _)
rx_devvec(d, m) ==
  LET p    == addr_to_prop(d.addr)
      ads  == [addr |-> d.addr, inc |-> m.inc, count |-> d.count]
      offs == addr2ofs(p, ads)
      done == CASE m.vec = "GET" -> getbar(d, m, p, ads, offs)
                [] m.vec = "SET" -> setbar(d, m, p, ads, offs)
                [] m.vec = "SUBSCRIBE" -> subscribebar(d)
  IN  IF d.count = 0 \/ d.lost THEN d
      ELSE IF p = NULL
      THEN IF m.vec = "SET" THEN Refuse(d, m, "NOSUCHPROP")
           ELSE rx_devvec(Past(Refuse(d, m, "NOSUCHPROP"), m.inc, 1), m)
      ELSE IF ~ canaccess(m.vec, p)
      THEN rx_devvec(Past(Skip(Refuse(d, m, badaccess[m.vec]), m, 1, Size(p)), m.inc, 1), m)
      ELSE IF offs = NULL THEN d
      ELSE rx_devvec(Past(Skip(done, m, offs.count, Size(p)), m.inc, offs.count), m)

\* dmp_sdtRx: a message without property data cannot claim one value for each
\* address.  The answers are flushed at the end.
dmp_sdtRx(m) ==
  LET d == [addr |-> m.addr, count |-> m.count, dp |-> 1, held |-> held, out |-> <<>>,
            events |-> <<>>, evcxt |-> evcxt, lost |-> FALSE]
  IN  IF m.vec # "SET" /\ m.multi THEN d ELSE rx_devvec(d, m)

-----------------------------------------------------------------------------
\* addr2index: the indexes of the first element, and the level that steps.
addr2index(p, ads) ==
  LET ix == Ixs(p, ads.addr - p.addr)
      x  == incx(p, ads.inc)
  IN  IF ix.left # 0 THEN NULL
      ELSE [ixs |-> ByLevel(p, ix.at), count |-> Within(p, ads, ix.at),
            iterdim |-> IF x = 0 THEN 0 ELSE CHOOSE t \in 1 .. ndims(p) : tref(p, t) = x,
            inc |-> IF x = 0 THEN 0 ELSE ads.inc \div dim(p)[x].inc]

HasReason(vec) == vec \in {"GET_FAIL", "SET_FAIL", "SUBSCRIBE_REJECT"}

\* showprops prints the elements of a run with their values, or the reason.
showprops(r, p, ayi, dp) ==
  LET size == IF HasReason(r.vec) THEN 1 ELSE Size(p)
      elem(k) == [t \in 1 .. ndims(p) |->
                    ayi.ixs[t] + (IF t = ayi.iterdim THEN k * ayi.inc ELSE 0)]
  IN  [k \in 1 .. ayi.count |->
         [vec |-> r.vec, elem |-> <<p.prop, elem(k - 1)>>,
          val |-> Read(r.data, dp + (IF r.multi THEN (k - 1) * size ELSE 0), size)]]

\* rx_ctlvec, from address to address of an answer r; c holds what is still to do.
RECURSIVE rx_ctlvec(_, _)
rx_ctlvec(c, r) ==
  LET p    == addr_to_prop(c.addr)
      ayi  == addr2index(p, [addr |-> c.addr, inc |-> r.inc, count |-> c.count])
      size == IF HasReason(r.vec) THEN 1 ELSE Size(p)
  IN  IF c.count = 0 THEN c.shown
      ELSE IF p = NULL
      THEN IF ~ HasReason(r.vec) THEN c.shown
           ELSE rx_ctlvec([c EXCEPT !.count = @ - 1, !.addr = @ + r.inc,
                                    !.dp = IF c.count = 1 \/ r.multi THEN @ + 1 ELSE @], r)
      ELSE IF ayi = NULL THEN c.shown
      ELSE rx_ctlvec([count |-> c.count - ayi.count, addr |-> c.addr + ayi.count * r.inc,
                      dp |-> c.dp + (IF r.multi THEN ayi.count * size
                                     ELSE IF ayi.count = c.count THEN size ELSE 0),
                      shown |-> c.shown \o showprops(r, p, ayi, c.dp)], r)

Show(rs) == FlattenSeq([i \in 1 .. Len(rs) |->
              rx_ctlvec([count |-> rs[i].count, addr |-> rs[i].addr, dp |-> 1, shown |-> <<>>],
                        rs[i])])

-----------------------------------------------------------------------------
\* What a controller sends.  The demonstration's own commands name one element of
\* a property that grants them, by its indexes (readprop, ofs2addr); others may ask
\* for ranges.  A set-property carries an item for each address, or one, of the
\* size that the property there has: how = "new": values that the elements do not hold,
\* "over": such as are out of bounds, "some": at every other address what is held there.
LongestOf(dims) == Max({0} \cup {d.cnt : d \in Range(dims)})
IndexesOf(dims) ==
  {at \in [DOMAIN dims -> 0 .. LongestOf(dims) - 1] : \A t \in DOMAIN at : at[t] < dims[t].cnt}
Indexes(p) == IndexesOf(p.dims)

\* The property at the k-th address of m, and its elements from there on.
PropAt(m, k) == addr_to_prop(m.addr + k * m.inc)
RunAt(m, k) ==
  addr2ofs(PropAt(m, k), [addr |-> m.addr + k * m.inc, inc |-> m.inc, count |-> m.count - k])

Item(m, k) ==
  LET p == PropAt(m, k)
  IN  IF p = NULL THEN Cells(<<"set", k>>, 1)
      ELSE IF m.how = "over" THEN Cells(<<"over", k>>, Size(p))
      ELSE IF m.how = "some" /\ k % 2 = 0 /\ RunAt(m, k) # NULL
      THEN ValueIn(held, p, RunAt(m, k).addr)
      ELSE Cells(<<"set", k>>, Size(p))
WithData(m) ==
  [m EXCEPT !.data = IF m.vec # "SET" THEN <<>>
                     ELSE FlattenSeq([k \in 1 .. (IF m.multi THEN m.count ELSE 1) |-> Item(m, k - 1)])]

Hows == {"new", "over", "some"}
Commands(p) ==
  {[vec |-> v, multi |-> FALSE, addr |-> ofs2addr(p, Flat(p.dims, at)), inc |-> 0, count |-> 1,
    data |-> <<>>, how |-> how, elem |-> <<p.prop, at>>] :
       v \in {v \in DOMAIN Needs : canaccess(v, p)}, at \in Indexes(p), how \in Hows}

RangesAt(p) ==
  {[vec |-> v, multi |-> b, addr |-> p.addr + r.ofs, inc |-> r.inc, count |-> r.count,
    data |-> <<>>, how |-> how, elem |-> <<>>] :
       v \in DOMAIN Needs, b \in BOOLEAN, r \in Ranges, how \in Hows \ {"over"}}

\* One value is enough: each element is a run of its own, of the same size.
OneFits(m) ==
  \A k \in 0 .. m.count - 1 :
    PropAt(m, k) = NULL \/ (/\ RunAt(m, k) = NULL \/ RunAt(m, k).count = 1
                            /\ PropAt(m, 0) # NULL /\ Size(PropAt(m, k)) = Size(PropAt(m, 0)))

\* No run of two or more steps along an array with another inside it, or the other way
\* round in one whose inner steps are the longer: where PassedOver is wrong.
StepsRight(m) ==
  \A k \in 0 .. m.count - 1 :
    LET p   == PropAt(m, k)
        run == RunAt(m, k)
        x   == incx(p, m.inc)
        at  == CHOOSE t \in 1 .. ndims(p) : tref(p, t) = x
    IN  m.inc = 0 \/ p = NULL \/ run = NULL \/ run.count = 1 \/ PassedOver(p, x) = 1 .. at - 1

MaySend(m) ==
  /\ m.addr >= 0
  /\ m.how = "new" \/ (m.vec = "SET" /\ (m.multi \/ m.count = 1))
  /\ CommonData \/ m.vec # "SET" \/ m.multi \/ OneFits(m)
  /\ OuterSteps \/ StepsRight(m)
Sendable(p) == {m \in Commands(p) \cup RangesAt(p) : MaySend(m)}

\* Bounds: a device with an array and nothing that is not in its map, as the
\* parser left it; nothing after the first answer to it but a subscription's.
Ready2Serve == /\ state = "parsed" /\ Len(props) <= MaxServed
               /\ amap.type # "indx" /\ \E p \in mapped : ndims(p) > 0
               /\ \A i \in DOMAIN props :
                    props[i].vtype \in {"net", "null", "device"} /\ props[i].id = NULL
               /\ asked.kind \in {"nothing", "connected"}

Message(m0) ==
  LET m == WithData(m0)
      d == dmp_sdtRx(m)
  IN  /\ held' = d.held /\ evcxt' = d.evcxt
      /\ shown' = Show(d.out) \o (IF evcxt = "member" THEN Show(d.events) ELSE <<>>)
      /\ asked' = [kind |-> "message", m |-> m, was |-> held]
      /\ UNCHANGED vars

\* dd_sdtev: the controller has connected on the event channel; it is sent the
\* row of p that starts at offset 0.
dd_sdtev(p) ==
  LET row == IF ndims(p) = 0 THEN [inc |-> 1, cnt |-> 1] ELSE p.dims[1]
  IN  /\ evcxt = "joining" /\ evcxt' = "member"
      /\ shown' = Show(<<declare_bars(held, p, [addr |-> p.addr, inc |-> row.inc],
                                      [addr |-> 0, inc |-> 1, count |-> row.cnt], "SYNC_EVENT")>>)
      /\ asked' = [kind |-> "connected", p |-> p.prop]
      /\ UNCHANGED <<vars, held>>

\* bar_Y: an element changed at the device itself.
bar_Y(p, ofs) ==
  LET v == Cells(<<"local">>, Size(p))
      h == (<<p.prop, ofs>> :> v) @@ held
      inc == IF ndims(p) = 0 THEN 0 ELSE p.dims[1].inc
  IN  /\ v # ValueIn(held, p, ofs) /\ held' = h
      /\ shown' = IF evcxt # "member" THEN <<>>
                  ELSE Show(<<declare_bars(h, p, [addr |-> ofs2addr(p, ofs), inc |-> inc],
                                           [addr |-> ofs, inc |-> 1, count |-> 1], "EVENT")>>)
      /\ asked' = [kind |-> "local", p |-> p.prop, ofs |-> ofs]
      /\ UNCHANGED <<vars, evcxt>>

DeviceInit ==
  /\ Init /\ held = <<>> /\ evcxt = "none" /\ shown = <<>> /\ asked = [kind |-> "nothing"]

DeviceNext ==
  \/ asked.kind = "nothing" /\ Next /\ UNCHANGED devVars
  \/ Ready2Serve /\ \E p \in mapped : \E m \in Sendable(p) : Message(m)
  \/ \E p \in mapped : dd_sdtev(p)
  \/ Ready2Serve /\ \E p \in mapped : \E at \in Indexes(p) : bar_Y(p, Flat(p.dims, at))

DeviceSpec == DeviceInit /\ [][DeviceNext]_allVars

-----------------------------------------------------------------------------
(***************************************************************************)
(* What the document and the message say, from DocFirst and DocAllDims.    *)
(***************************************************************************)
DocElems(i) == IndexesOf(DocAllDims(i))
DocAddress(i, t) == DocFirst(i) + FoldLeft(LAMBDA a, j : a + t[j] * DocAllDims(i)[j].inc, 0,
                                           [j \in DOMAIN t |-> j])

Elements == UNION {{<<i, t>> : t \in DocElems(i)} : i \in {p.prop : p \in mapped}}

\* An array's elements lie row by row in the C array, as demo_utils.c:88 says.
HoldsIn(h, e) ==
  LET p == CHOOSE p \in mapped : p.prop = e[1]
      o == FoldLeft(LAMBDA n, j : n * DocAllDims(e[1])[j].cnt + e[2][j], 0,
                    Reverse([j \in DOMAIN e[2] |-> j]))
  IN  ValueIn(h, p, o)
Holds(e) == HoldsIn(held, e)
Grants(e, vec) == Needs[vec] \in Head(props[e[1]].at).access
SizeOf(e) == Head(props[e[1]].at).size

\* The elements at the addresses of m that the device gets to: a set-property ends at
\* the first that no property has.
Reached(m) ==
  LET place == [e \in Elements |-> DocAddress(e[1], e[2])]
      at    == [k \in 1 .. m.count |-> {e \in DOMAIN place : place[e] = m.addr + (k - 1) * m.inc}]
      no    == {k \in DOMAIN at : at[k] = {}}
  IN  IF m.vec # "SET" \/ no = {} THEN at
      ELSE SubSeq(at, 1, (CHOOSE k \in no : \A j \in no : k <= j) - 1)

\* What m makes of the element e at its k-th address.
Sent(m, k, e) ==
  IF m.how = "over" THEN Cells(<<"max">>, SizeOf(e))
  ELSE IF m.how = "some" /\ k % 2 = 1 THEN HoldsIn(asked.was, e)
  ELSE Cells(<<"set", IF m.multi THEN k - 1 ELSE 0>>, SizeOf(e))

\* The answer to the k-th address of m, at element e; <<>>: none, or none seen.
Answer(m, k, e) ==
  LET tell(vec, val) == <<[vec |-> vec, elem |-> e, val |-> val]>>
  IN  IF ~ Grants(e, m.vec) THEN tell(failrsp[m.vec], <<<<badaccess[m.vec]>>>>)
      ELSE CASE m.vec = "GET" -> tell("GET_REPLY", Holds(e))
             [] m.vec = "SET" -> IF evcxt = "member" /\ Grants(e, "SUBSCRIBE")
                                 THEN tell("EVENT", Holds(e)) ELSE <<>>
             [] m.vec = "SUBSCRIBE" -> <<>>

Answers(m, at, ks) ==
  FlattenSeq([k \in DOMAIN at |->
    IF k \notin ks \/ at[k] = {} THEN <<>> ELSE Answer(m, k, CHOOSE e \in at[k] : TRUE)])

\* Where m changes the element there, or is refused by it.
Changes(m, k, e) == Sent(m, k, e) # HoldsIn(asked.was, e)
Telling(m, at) ==
  {k \in DOMAIN at : \A e \in at[k] : Grants(e, m.vec) => Changes(m, k, e)}

\* The value of e after m: that of the last of its addresses.
After(m, at, e) ==
  LET ks == {k \in DOMAIN at : e \in at[k]}
  IN  IF m.vec # "SET" \/ ~ Grants(e, "SET") \/ ks = {} THEN HoldsIn(asked.was, e)
      ELSE Sent(m, Max(ks), e)

(***************************************************************************)
(* A value gets to the element it was sent for and to no other, and what   *)
(* the controller prints is, for each address once, what the device holds  *)
(* for the element there or why it was refused.  An event is owed where a  *)
(* value changed, may come with it for the unchanged elements of a run,    *)
(* and does not come when a message changes nothing (rx_devvec, setbar,    *)
(* addr2ofs, rx_ctlvec, addr2index).  It is claimed of single elements, of *)
(* ranges that stay in a property, cross into others or hit none, along an *)
(* innermost array or from element to element, and of one value for a      *)
(* range of lone elements of one size; not of runs of elements along an    *)
(* array around another (OuterSteps), nor of one value for such a run or   *)
(* for several sizes (CommonData), where the code does something else.     *)
(***************************************************************************)
ElementsAgree ==
  /\ asked.kind = "message" =>
       LET m     == asked.m
           at    == Reached(m)
           every == DOMAIN at
       IN  /\ m.elem # <<>> => at = <<{m.elem}>>
           /\ \A e \in Elements : Holds(e) = After(m, at, e)
           /\ CASE m.vec # "SET" /\ m.multi -> shown = <<>>
                [] m.vec = "SUBSCRIBE" /\ ~ m.multi -> Range(shown) \subseteq Range(Answers(m, at, every))
                [] m.vec = "GET" /\ ~ m.multi -> ToBag(shown) = ToBag(Answers(m, at, every))
                [] m.vec = "SET" ->
                     /\ ToBag(Answers(m, at, Telling(m, at))) \sqsubseteq ToBag(shown)
                     /\ ToBag(shown) \sqsubseteq ToBag(Answers(m, at, every))
                     /\ (\E i \in DOMAIN shown : shown[i].vec = "EVENT") =>
                          \E k \in every : \E e \in at[k] : Grants(e, "SET") /\ Changes(m, k, e)
  /\ asked.kind = "connected" =>
       /\ \A r \in Range(shown) : r.elem[1] = asked.p /\ r.val = Holds(r.elem)
       /\ shown # <<>>
  /\ asked.kind = "local" =>
       \A r \in Range(shown) : r.val = Cells(<<"local">>, SizeOf(r.elem)) /\ r.val = Holds(r.elem)
=============================================================================
