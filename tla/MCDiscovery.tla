----------------------------- MODULE MCDiscovery -----------------------------
(***************************************************************************)
(* Discovery with attribute lists that are right, wrong in each way, and   *)
(* right in another order.                                                 *)
(***************************************************************************)
EXTENDS Discovery

text == Val({}, 1, 0, TRUE)
comma == Val({}, 1, 1, TRUE)
Right(csl) == <<Att("cid", <<text>>),
                Att("acn-services", <<Val({"other"}, 1, 0, TRUE), Val({"esta.dmp"}, 1, 0, TRUE)>>),
                Att("acn-fctn", <<comma>>), Att("acn-uacn", <<comma>>),
                Att("csl-esta.dmp", <<Val({}, 1, 0, TRUE), csl>>),
                Att("device-description", <<text>>)>>
Ctl == Right(Val({"slp_ctl"}, 1, 0, TRUE))
Dev == Right(Val({"slp_dev"}, 1, 0, TRUE))

MCLists ==
  {Dev, Reverse(Ctl), Append(Dev, Att("other", <<text, text>>)),
   Tail(Dev), Append(Dev, Att("acn-uacn", <<text>>)),
   <<Att("cid", <<text, text>>)>> \o Tail(Dev),
   <<Att("cid", <<Val({}, 1, 1, FALSE)>>)>> \o Tail(Dev)}

\* The two halves of Discovery share nothing: it is enough that either moves while the
\* other is where it started.
Apart == (adhoc = {} /\ lifetimer = {}) \/ (heap = <<>> /\ asking = "no")
===============================================================================
