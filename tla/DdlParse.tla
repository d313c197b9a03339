------------------------------ MODULE DdlParse ------------------------------
(***************************************************************************)
(* The parse of a device and of the devices it includes (csrc/ddlparse.c): *)
(* the expat callbacks el_start and el_end with the handlers they select   *)
(* build the property tree, propref_start enters each network property in  *)
(* the address map of module DmpMap, includedev queues a device whose      *)
(* module is parsed later, and property pointers wait as tasks until the   *)
(* tree is complete.                                                       *)
(*                                                                         *)
(* The document is whatever the callbacks bring: each action is one        *)
(* element with its attributes from small sets.  A leaf element (propref,  *)
(* childrule, value, setparam, propertypointer) is one action, start and   *)
(* end.  What the document itself says is kept in the fields `rule',       *)
(* `setp', `at', `id' and `ownId' of a property, for the properties below; *)
(* the parser itself asks of them only whether they are set.               *)
(***************************************************************************)
EXTENDS DmpMap

CONSTANTS
  Arrays,              \* values of the attribute array
  Proprefs,            \* of the attributes of a propref_DMP
  Rules,               \* of loc, inc (0: none) and abs of a childrule_DMP
  Params,              \* of a parameter
  Ids, Paths,          \* xml:ids; paths, as sequences of ids, ".." and "/"
  hash, INITPOWER,     \* of the table of ids: the hashes, and its first size
  Kinds,               \* the elements and value types documents use
  Values,              \* bound on the values of an immediate property
  MaxProps             \* bound on the properties, the root included

IdTable == INSTANCE Keys WITH Free <- NULL

ASSUME ParseAssumption ==
  /\ Arrays \subseteq Nat \ {0} /\ Params \subseteq Nat
  /\ Proprefs \subseteq [loc : Nat, byParam : BOOLEAN, abs : BOOLEAN, inc : Nat,
                          size : Nat \ {0}, access : SUBSET {"read", "write", "event"}]
  /\ Rules \subseteq [loc : Nat, inc : Nat, abs : BOOLEAN]
  /\ Paths \subseteq Seq(Ids \cup {"..", "/"}) /\ NULL \notin Ids
  /\ Kinds \subseteq {"null", "net", "imm", "include", "alias", "setparam", "badtype"}
  /\ INITPOWER \in Nat \ {0} /\ Values \in Nat /\ MaxProps \in Nat \ {0}

VARIABLES
  props,   \* the ddlprop_s, numbered as they are allocated
  queue,   \* the modules to parse; each names the property it belongs to
  cur,     \* dcxp->m.dev.curprop
  nest,    \* elements open in this module
  skip,    \* nesting level of the element being skipped, or NOSKIP
  total,   \* dcxp->arraytotal
  ids,     \* rootdev->idtab: the properties by <<device, id>>
  state    \* "parsing", "parsed", "aborted" by an assertion, or "undefined"

treeVars == <<props, queue, cur, nest, skip, ids, total, state>>
mapVars  == <<amap, tables, mapped>>
vars == <<treeVars, mapVars>>

NOSKIP == 0
Root == 1
NoRule == [loc |-> 0, inc |-> 0, abs |-> FALSE]

\* acnNew(struct ddlprop_s)
Blank == [parent |-> 0, arrayprop |-> 0, array |-> 1, inc |-> 0, childaddr |-> 0,
          childinc |-> 0, vtype |-> "null", children |-> <<>>, params |-> <<>>,
          count |-> 0, block |-> 1, alias |-> NULL, id |-> NULL, ownId |-> FALSE,
          rule |-> NoRule, setp |-> <<>>, at |-> <<>>, path |-> <<>>]

RECURSIVE itsdevice(_)
itsdevice(i) == IF i = 0 \/ props[i].vtype = "device" THEN i ELSE itsdevice(props[i].parent)

-----------------------------------------------------------------------------
Parsing == state = "parsing" /\ queue # <<>>
Inside == Parsing /\ nest > 0 /\ skip = NOSKIP
MayHold(i) == props[i].vtype \in {"null", "imm", "net", "device"}

\* addpropID, for property i of the device d.
NewId(d, i, id) ==
  IF id = NULL THEN ids ELSE IdTable!addkey(ids, [key |-> <<d, id>>, prop |-> i])
FreeIds(d) == {NULL} \cup {id \in Ids : \A e \in IdTable!Entries(ids) : e.key # <<d, id>>}

SKIPON(lvl) == skip' = lvl

\* The root module makes the root; another turns its includedev into a device,
\* which takes the device's own id only if the include has none.
dev_start(id) ==
  LET i   == IF Head(queue) = 0 THEN Root ELSE Head(queue)
      old == IF Head(queue) = 0 THEN Blank ELSE props[i]
      own == old.id = NULL /\ id # NULL
      dev == [old EXCEPT !.vtype = "device", !.id = IF own THEN id ELSE @, !.ownId = own]
  IN  /\ Parsing /\ nest = 0 /\ id \in FreeIds(i)
      /\ props' = IF Head(queue) = 0 THEN <<dev>> ELSE [props EXCEPT ![i] = dev]
      /\ total' = IF Head(queue) = 0 THEN 1 ELSE total
      /\ ids' = IF own THEN NewId(i, i, id) ELSE ids
      /\ cur' = i /\ nest' = 1
      /\ UNCHANGED <<queue, skip, state, mapVars>>

\* prop_wrapup, called before the first child or at the end, refuses a network
\* property without a protocol and an immediate one without a value.
WrapupFails(i) ==
  \/ props[i].vtype = "net" /\ props[i].at = <<>>
  \/ props[i].vtype = "imm" /\ props[i].count = 0
Wrapped == props[cur].children # <<>> \/ ~ WrapupFails(cur)

\* The part of pprop_start that all three elements share.
\* Mutant: the link to the array above skips the parent.
Arrayprop_up(i) == props[i].arrayprop
Arrayprop(i) == IF props[i].array > 1 THEN i ELSE props[i].arrayprop
NewProp(vtype, n, id) ==
  [Blank EXCEPT !.parent = cur, !.childaddr = props[cur].childaddr, !.array = n,
                !.childinc = props[cur].childinc, !.arrayprop = Arrayprop(cur),
                !.vtype = vtype, !.id = id]
\* Mutant: the child is linked in document order, and so reversed at the end.
Linked_end(p) == [Append(props, p) EXCEPT ![cur].children = @ \o <<Len(props) + 1>>]
Linked(p) == [Append(props, p) EXCEPT ![cur].children = <<Len(props) + 1>> \o @]

property_start(vtype, n, id) ==
  /\ Inside /\ MayHold(cur) /\ Wrapped /\ Len(props) < MaxProps
  /\ id \in FreeIds(itsdevice(cur))
  /\ props' = Linked(NewProp(vtype, n, id))
  /\ ids' = NewId(itsdevice(cur), Len(props) + 1, id)
  /\ cur' = Len(props) + 1 /\ nest' = nest + 1 /\ total' = total * n
  /\ UNCHANGED <<queue, skip, state, mapVars>>

\* A valuetype that is missing or unknown: the property is freed but stays the
\* current one, and since its end tag is skipped, so it does for what follows.
property_badtype ==
  /\ Inside /\ MayHold(cur) /\ Wrapped /\ "badtype" \in Kinds
  /\ state' = "undefined"
  /\ UNCHANGED <<props, queue, cur, nest, skip, ids, total, mapVars>>

\* The module that device i names is parsed after those that wait already.
queue_module(i) == queue' = Append(queue, i)

\* The include inherits the parameters of the device it is in.
includedev_start(n, id) ==
  /\ Inside /\ MayHold(cur) /\ Wrapped /\ Len(props) < MaxProps
  /\ id \in FreeIds(itsdevice(cur))
  /\ props' = Linked([NewProp("include", n, id) EXCEPT
                        !.params = props[itsdevice(cur)].params])
  /\ queue_module(Len(props) + 1)
  /\ ids' = NewId(itsdevice(cur), Len(props) + 1, id)
  /\ cur' = Len(props) + 1 /\ nest' = nest + 1 /\ total' = total * n
  /\ UNCHANGED <<skip, state, mapVars>>

\* <propertypointer>: resolvepp is a task for later.
propertypointer(path) ==
  /\ Inside /\ MayHold(cur) /\ Wrapped /\ Len(props) < MaxProps
  /\ props' = Linked([NewProp("alias", 1, NULL) EXCEPT !.path = path])
  /\ UNCHANGED <<queue, cur, nest, skip, total, ids, state, mapVars>>

\* A child before whose element prop_wrapup fails is skipped.
UnwrappedChild ==
  /\ Inside /\ MayHold(cur) /\ ~ Wrapped
  /\ nest' = nest + 1 /\ SKIPON(nest + 1)
  /\ UNCHANGED <<props, queue, cur, total, ids, state, mapVars>>

\* Mutant: one value too many is taken.
value_over ==
  /\ Inside /\ MayHold(cur) /\ props[cur].vtype = "imm" /\ props[cur].count < Values
  /\ props[cur].children = <<>>
  /\ LET c == props[cur].count
     IN  IF c > 0 /\ c > total THEN UNCHANGED props
         ELSE props' = [props EXCEPT ![cur].count = @ + 1,
                                     ![cur].block = IF c = 1 THEN total ELSE @]
  /\ UNCHANGED <<queue, cur, nest, skip, total, ids, state, mapVars>>

\* <value>, with its text.
value ==
  /\ Inside /\ MayHold(cur) /\ props[cur].vtype = "imm" /\ props[cur].count < Values
  /\ props[cur].children = <<>>
  /\ LET c == props[cur].count
     IN  IF c > 0 /\ c >= total THEN UNCHANGED props
         ELSE props' = [props EXCEPT ![cur].count = @ + 1,
                                     ![cur].block = IF c = 1 THEN total ELSE @]
  /\ UNCHANGED <<queue, cur, nest, skip, total, ids, state, mapVars>>

\* <setparam> in an includedev; a sub-device reads the list from its head.
setparam(v) ==
  /\ Inside /\ props[cur].vtype = "include" /\ props[cur].setp = <<>>
  /\ props' = [props EXCEPT ![cur].params = <<v>> \o @, ![cur].setp = <<v>>]
  /\ UNCHANGED <<queue, cur, nest, skip, total, ids, state, mapVars>>

\* <childrule_DMP>: where the children's addresses start and how they step.
childrule_start(r) ==
  /\ Inside /\ props[cur].children = <<>> /\ props[cur].rule = NoRule
  /\ props[cur].vtype # "device"
  /\ props' = [props EXCEPT
       ![cur].childaddr = r.loc + (IF r.abs THEN 0 ELSE @),
       ![cur].childinc = IF r.inc = 0 THEN @ ELSE r.inc,
       ![cur].rule = r]
  /\ UNCHANGED <<queue, cur, nest, skip, total, ids, state, mapVars>>

\* mapprop collects the dimensions on its way up the arrays.
RECURSIVE Dims(_)
Dims(i) == IF i = 0 THEN <<>>
           ELSE <<[inc |-> props[i].childinc, cnt |-> props[i].array]>> \o Dims(props[i].arrayprop)

\* An attribute with its parameter's name is replaced if the device has the parameter.
subsparam(own, byParam, params) == IF byParam /\ params # <<>> THEN Head(params) ELSE own

\* <propref_DMP loc=.. inc=.. abs=..>, loc perhaps by loc.paramname.  An array whose inc
\* is 0 leaves a dimension to fill that mapprop then looks for above the outermost array.
\* The two assertions on arraytotal stop the process.
propref_start(r) ==
  LET at    == subsparam(r.loc, r.byParam, props[itsdevice(cur)].params)
      array == props[cur].array > 1
      own   == IF array THEN <<[inc |-> r.inc, cnt |-> props[cur].array]>> ELSE <<>>
      np    == [prop |-> cur,
                addr |-> at + (IF r.abs THEN 0 ELSE props[props[cur].parent].childaddr),
                dims |-> own \o Dims(props[cur].arrayprop), packed |-> FALSE]
  IN  /\ Inside /\ props[cur].vtype = "net" /\ props[cur].at = <<>>
      /\ props[cur].children = <<>>
      /\ LastAddress(np) < Top /\ amap.count + 2 <= MaxRegions
      /\ props' = [props EXCEPT ![cur].inc = IF array THEN r.inc ELSE @, ![cur].at = <<r>>]
      /\ IF array /\ r.inc = 0 THEN state' = "undefined" /\ UNCHANGED mapVars
         ELSE IF total = 0 THEN state' = "aborted" /\ UNCHANGED mapVars
         ELSE mapprop(np, total) /\ UNCHANGED state
      /\ UNCHANGED <<queue, cur, nest, skip, total, ids>>

-----------------------------------------------------------------------------
\* el_start and el_end while an element is skipped.
SkippedStart ==
  /\ Parsing /\ skip # NOSKIP /\ nest = skip /\ nest' = nest + 1
  /\ UNCHANGED <<props, queue, cur, skip, total, ids, state, mapVars>>

SkippedEnd ==
  /\ Parsing /\ skip # NOSKIP /\ nest' = nest - 1
  /\ skip' = IF nest = skip THEN NOSKIP ELSE skip
  /\ UNCHANGED <<props, queue, cur, total, ids, state, mapVars>>

\* Children are linked last first, until the property ends.
reverseproplist(plist) == Reverse(plist)

\* pprop_end, for property, includedev and device alike.  After the device
\* parsemodules goes on to the next module, with a cleared dcxp->m.
pprop_end ==
  /\ Inside
  /\ props' = IF props[cur].vtype = "include" THEN props
              ELSE [props EXCEPT ![cur].children = reverseproplist(@)]
  /\ total' = total \div props[cur].array
  /\ nest' = nest - 1
  /\ IF nest = 1 THEN cur' = 0 /\ queue' = Tail(queue)
     ELSE cur' = props[cur].parent /\ UNCHANGED queue
  /\ UNCHANGED <<skip, ids, state, mapVars>>

\* ddlref: from the device of the property, or from the root, step by step.
\* Mutant: ".." stays within the device.
Step_here(pp, s) ==
  LET dev   == itsdevice(pp)
      found == IdTable!findkey(ids, <<dev, s>>)
  IN  IF pp = NULL THEN NULL
      ELSE IF s = "/" THEN Root
      ELSE IF s = ".." THEN dev
      ELSE IF found = NULL THEN NULL ELSE found.prop
Step(pp, s) ==
  LET dev   == itsdevice(pp)
      found == IdTable!findkey(ids, <<dev, s>>)
  IN  IF pp = NULL THEN NULL
      ELSE IF s = "/" THEN Root
      ELSE IF s = ".." THEN IF props[dev].parent = 0 THEN NULL ELSE itsdevice(props[dev].parent)
      ELSE IF found = NULL THEN NULL ELSE found.prop
ddlref(i, path) == FoldLeft(Step, itsdevice(i), path)

\* parseroot after the last module: the tasks.
resolvepp ==
  /\ state = "parsing" /\ queue = <<>> /\ state' = "parsed"
  /\ props' = [i \in DOMAIN props |->
                 IF props[i].vtype = "alias" THEN [props[i] EXCEPT !.alias = ddlref(i, props[i].path)]
                 ELSE props[i]]
  /\ UNCHANGED <<queue, cur, nest, skip, total, ids, mapVars>>

\* The application may turn the map of the finished device into an index; a
\* table that two regions share is freed twice.
toIndex ==
  /\ state = "parsed"
  /\ \/ xformtoindx /\ UNCHANGED treeVars
     \/ /\ ~ TableOwned /\ state' = "undefined"
        /\ UNCHANGED <<props, queue, cur, nest, skip, ids, total, mapVars>>

-----------------------------------------------------------------------------
Init ==
  /\ props = <<>> /\ queue = <<0>> /\ cur = 0 /\ nest = 0 /\ skip = NOSKIP
  /\ total = 0 /\ ids = IdTable!NoTable /\ state = "parsing" /\ MapInit

Next ==
  \/ value \/ UnwrappedChild \/ property_badtype
  \/ \E id \in Ids \cup {NULL} : dev_start(id)
  \/ \E v \in Kinds \cap {"null", "net", "imm"}, n \in Arrays, id \in Ids \cup {NULL} :
       property_start(v, n, id)
  \/ \E n \in Arrays, id \in Ids \cup {NULL} : "include" \in Kinds /\ includedev_start(n, id)
  \/ \E path \in Paths : "alias" \in Kinds /\ propertypointer(path)
  \/ \E v \in Params : "setparam" \in Kinds /\ setparam(v)
  \/ \E r \in Rules : childrule_start(r)
  \/ \E r \in Proprefs : propref_start(r)
  \/ SkippedStart \/ SkippedEnd \/ pprop_end \/ resolvepp \/ toIndex

Spec == Init /\ [][Next]_vars

-----------------------------------------------------------------------------
\* What the document says, read from the tree and the attributes alone.

\* Where the addresses of the children of i start, and how i's instances step.
RECURSIVE DocBase(_), DocInc(_), DocParam(_), DocDims(_)
DocBase(i) ==
  IF i = 0 THEN 0
  ELSE props[i].rule.loc + (IF props[i].rule.abs THEN 0 ELSE DocBase(props[i].parent))
DocInc(i) ==
  IF i = 0 THEN 0 ELSE IF props[i].rule.inc # 0 THEN props[i].rule.inc ELSE DocInc(props[i].parent)

\* The parameter as the nearest includedev around i sets it.
DocParam(i) ==
  IF i = 0 THEN <<>> ELSE IF props[i].setp # <<>> THEN props[i].setp ELSE DocParam(props[i].parent)

DocDims(i) ==
  IF i = 0 THEN <<>>
  ELSE (IF props[i].array > 1 THEN <<[inc |-> DocInc(i), cnt |-> props[i].array]>> ELSE <<>>)
       \o DocDims(props[i].parent)

\* The first address of i, and the dimensions of its instances, leaf first.
DocFirst(i) ==
  LET at == Head(props[i].at)
      ps == DocParam(props[i].parent)
  IN  (IF at.byParam /\ ps # <<>> THEN Head(ps) ELSE at.loc)
      + (IF at.abs THEN 0 ELSE DocBase(props[i].parent))
DocAllDims(i) ==
  (IF props[i].array > 1 THEN <<[inc |-> props[i].inc, cnt |-> props[i].array]>> ELSE <<>>)
  \o DocDims(props[i].parent)

\* None, if two instances would have one address: the parser refuses the array.
DocAddresses(i) ==
  LET ds    == DocAllDims(i)
      os    == Offsets(ds)
      first == DocFirst(i)
  IN  IF Cardinality(os) = Elems(ds) THEN {first + o : o \in os} ELSE {}

\* Whatever the parser has met so far, in whatever order, but for the layouts that
\* Mishap names: each address is found to belong to the property the document puts
\* there, and to none where there is none, with packed and sparse properties apart,
\* among and across each other (addr_to_prop of dmpmap.c on the map that mapprop
\* builds or xformtoindx has turned into an index).
Found ==
  state \in {"parsing", "parsed"} =>
    LET found == {<<a, addr_to_prop(a)>> : a \in 0 .. Top}
    IN  {<<f[1], f[2].prop>> : f \in {f \in found : f[2] # NULL}}
        = UNION {DocAddresses(i) \X {i} : i \in {i \in DOMAIN props : props[i].at # <<>>}}

\* The tree of the finished device holds each element once, the children of each
\* in document order, whichever module they came from (reverseproplist).
DocumentOrder ==
  state = "parsed" =>
    \A i \in DOMAIN props :
      props[i].children = SetToSortSeq({j \in DOMAIN props : props[j].parent = i}, <)

\* A property pointer names the property that carries the id in the device its
\* path leads to, also if that was parsed after the pointer (resolvepp).
Scope(j) == IF props[j].ownId THEN j ELSE itsdevice(props[j].parent)
DocStep(pp, s) ==
  LET dev   == itsdevice(pp)
      found == {j \in DOMAIN props : props[j].id = s /\ Scope(j) = dev}
  IN  IF pp = NULL THEN NULL
      ELSE IF s = "/" THEN Root
      ELSE IF s = ".." THEN IF dev = Root THEN NULL ELSE itsdevice(props[dev].parent)
      ELSE IF found = {} THEN NULL ELSE CHOOSE j \in found : TRUE
PointersResolve ==
  state = "parsed" =>
    \A i \in DOMAIN props : props[i].vtype = "alias" =>
      props[i].alias = FoldLeft(DocStep, itsdevice(i), props[i].path)

\* An immediate property has no more values than the block it allocated for the
\* second of them has room for (value_start).
ValuesFit == \A i \in DOMAIN props : props[i].count <= props[i].block

\* The assertions of mapprop and propref_start on arraytotal hold.
NeverAborted == state # "aborted"
=============================================================================
