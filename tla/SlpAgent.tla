------------------------------ MODULE SlpAgent ------------------------------
(***************************************************************************)
(* The registration of local components with the SLP service agent         *)
(* (csrc/discovery.c): each is advertised and refreshed at half its        *)
(* lifetime.  All share one handle, which is open while one is registered. *)
(* SLPReg and SLPDereg report to slp_reg_report what they return; the      *)
(* agent knows what it does not advertise.                                 *)
(***************************************************************************)
EXTENDS Integers, FiniteSets

CONSTANT Lcomps  \* local components

VARIABLES
  adhoc,          \* local components with a listening socket
  advert,         \* those with Lc_advert
  lifetimer,      \* those whose lifetimer runs
  slphSA,         \* whether the service agent's handle is open
  registrations,
  agent           \* what the service agent advertises

localvars == <<adhoc, advert, lifetimer, slphSA, registrations, agent>>

AgentInit ==
  /\ adhoc = {} /\ advert = {} /\ lifetimer = {} /\ agent = {}
  /\ slphSA = FALSE /\ registrations = 0

\* Mutant: a refresh is counted as a registration.
slp_reg_report_all(cookie) == registrations' = registrations + (IF cookie = "DEREGISTER" THEN -1 ELSE 1)

\* errcode is SLP_OK
slp_reg_report(cookie) ==
  registrations' = registrations + (CASE cookie = "REGISTER" -> 1
                                      [] cookie = "DEREGISTER" -> -1
                                      [] OTHER -> 0)

\* With timers the lifetimers that run besides c's.
slp_register(c, timers) ==
  IF c \notin adhoc THEN lifetimer' = timers /\ UNCHANGED <<slphSA, registrations, agent, advert>>
  ELSE \/ /\ agent' = agent \cup {c} /\ advert' = advert \cup {c}
          /\ lifetimer' = timers \cup {c}
          /\ slp_reg_report(IF c \in advert THEN "REREGISTER" ELSE "REGISTER")
          /\ slphSA' = (registrations' > 0)
       \/ \* SLPOpen, make_atts or SLPReg fail
          /\ slphSA' \in {slphSA, registrations > 0}
          /\ lifetimer' = timers /\ UNCHANGED <<registrations, agent, advert>>

slp_refresh(c) == c \in lifetimer /\ slp_register(c, lifetimer \ {c}) /\ UNCHANGED adhoc

slp_deregister(c) ==
  /\ IF slphSA /\ c \in agent
     THEN /\ agent' = agent \ {c} /\ advert' = advert \ {c}
          /\ slp_reg_report("DEREGISTER")
     ELSE UNCHANGED <<agent, advert, registrations>>
  /\ slphSA' = (registrations' > 0 /\ slphSA)
  /\ UNCHANGED lifetimer

\* The application starts (device.c, controller.c): sdt_register, then slp_register.
Start(c) ==
  /\ c \notin adhoc /\ adhoc' = adhoc \cup {c}
  /\ UNCHANGED <<advert, lifetimer, slphSA, registrations, agent>>

Advertise(c) == c \in adhoc /\ slp_register(c, lifetimer) /\ UNCHANGED adhoc

\* And stops: slp_deregister, then sdt_deregister.
Stop(c) == c \in adhoc /\ slp_deregister(c) /\ adhoc' = adhoc \ {c}

LocalNext == \E c \in Lcomps : Start(c) \/ Advertise(c) \/ slp_refresh(c) \/ Stop(c)

AgentSpec == AgentInit /\ [][LocalNext]_localvars

-----------------------------------------------------------------------------
\* The handle of the service agent is open while something is registered (discovery.c:
\* "Keep track of the number of separate registrations"), however registrations,
\* refreshes and failures of several components follow each other, and a component that
\* was stopped is not advertised again by the timer that still runs for it.
AgentOpen ==
  /\ registrations = Cardinality(agent) /\ slphSA = (registrations > 0)
  /\ agent = advert /\ agent \subseteq adhoc
===============================================================================
