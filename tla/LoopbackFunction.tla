-------------------------- MODULE LoopbackFunction --------------------------
(***************************************************************************)
(* The loopback function (usb/gadget/f_loopback.c): its two bulk endpoints *)
(* and the requests on them over set_alt, disable, completions and their   *)
(* failures, and the instance's options while functions are made and       *)
(* freed.  The controller completes requests, and gives them all back with *)
(* -ESHUTDOWN when their endpoint is disabled.                             *)
(***************************************************************************)
EXTENDS Naturals, FiniteSets

CONSTANTS
  MaxRequests,  \* bound on requests allocated
  MaxFunctions  \* bound on functions made of the instance

VARIABLES
  bound,     \* loopback_bind() has succeeded
  enabled,   \* endpoints that are enabled
  data,      \* ep->driver_data: "null", "cdev" (claimed) or "loop"
  req,       \* the requests, where each is: its endpoint's queue, or lost
  work,      \* what remains of a call of set_alt or disable
  refcnt,    \* lb_opts->refcnt
  qlen,      \* lb_opts->qlen, and the one functions were made with
  used

vars == <<bound, enabled, data, req, work, refcnt, qlen, used>>

Eps == {"in", "out"}
Requests == 1..MaxRequests

TypeOK ==
  /\ bound \in BOOLEAN /\ enabled \subseteq Eps
  /\ data \in [Eps -> {"null", "cdev", "loop"}]
  /\ DOMAIN req \subseteq Requests
  /\ \A r \in DOMAIN req :
       req[r] \in [ep : Eps, at : {"queue", "lost"}, done : BOOLEAN]
  /\ work \in {"none", "disable", "disabled", "enable", "enable out", "queue in",
               "queue out"}
  /\ refcnt \in 0..MaxFunctions /\ qlen \in {0, 1} /\ used \in {0, 1}

Init ==
  /\ bound = FALSE /\ enabled = {} /\ data = [e \in Eps |-> "null"]
  /\ req = << >> /\ work = "none" /\ refcnt = 0 /\ qlen \in {0, 1} /\ used = 0

Options == <<refcnt, qlen, used>>

Queued(e) == {r \in DOMAIN req : req[r].ep = e /\ req[r].at = "queue"}

\* usb_ep_disable(): every request comes back with -ESHUTDOWN, and cannot be
\* queued again.
Flushed(rs, es) ==
  [r \in DOMAIN rs |-> IF rs[r].ep \in es
                         THEN [rs[r] EXCEPT !.at = "lost", !.done = TRUE] ELSE rs[r]]

-----------------------------------------------------------------------------
(* The instance: loopback_alloc(), lb_free_func(), the configfs attributes *)

AllocFunction ==
  /\ refcnt < MaxFunctions /\ refcnt' = refcnt + 1 /\ used' = qlen
  /\ UNCHANGED <<bound, enabled, data, req, work, qlen>>

FreeFunction ==
  /\ refcnt > 0 /\ (refcnt = 1 => ~bound) /\ refcnt' = refcnt - 1
  /\ UNCHANGED <<bound, enabled, data, req, work, qlen, used>>

\* f_lb_opts_qlen_store(), f_lb_opts_bulk_buflen_store(): -EBUSY otherwise.
OptsStore ==
  /\ refcnt = 0 /\ qlen' \in {0, 1}
  /\ UNCHANGED <<bound, enabled, data, req, work, refcnt, used>>

-----------------------------------------------------------------------------
(* The function *)

\* loopback_bind(): interface, string, endpoints, descriptors; what a failure
\* leaves claimed stays so.
Bind ==
  /\ ~bound /\ refcnt > 0
  /\ \/ bound' = TRUE /\ data' = [e \in Eps |-> "cdev"]
     \/ /\ UNCHANGED bound
        /\ data' \in {data, [data EXCEPT !["in"] = "cdev"], [e \in Eps |-> "cdev"]}
  /\ UNCHANGED <<enabled, req, work, Options>>

\* The configuration goes; it was disabled before.
Unbind ==
  /\ bound /\ work = "none" /\ enabled = {} /\ bound' = FALSE
  /\ UNCHANGED <<enabled, data, req, work, Options>>

\* Mutant: without disabling first.
SetAltMutant ==
  /\ bound /\ work = "none" /\ work' = "enable"
  /\ UNCHANGED <<bound, enabled, data, req, Options>>

\* loopback_set_alt(): disables what may be enabled.
SetAlt ==
  /\ bound /\ work = "none"
  /\ work' = IF data["in"] # "null" THEN "disable" ELSE "enable"
  /\ UNCHANGED <<bound, enabled, data, req, Options>>

\* loopback_disable()
Disable ==
  /\ bound /\ work = "none" /\ work' = "disabled"
  /\ UNCHANGED <<bound, enabled, data, req, Options>>

\* disable_loopback(), for one endpoint.
DisableEndpoint(e) ==
  /\ work \in {"disable", "disabled"} /\ data[e] # "null"
  /\ enabled' = enabled \ {e} /\ req' = Flushed(req, {e})
  /\ data' = [data EXCEPT ![e] = "null"]
  /\ UNCHANGED <<bound, work, Options>>

Disabled ==
  /\ work \in {"disable", "disabled"} /\ \A e \in Eps : data[e] = "null"
  /\ work' = IF work = "disable" THEN "enable" ELSE "none"
  /\ UNCHANGED <<bound, enabled, data, req, Options>>

\* enable_endpoint() of either; a failure of the second disables the first,
\* whose driver_data stays.
EnableIn ==
  /\ work = "enable"
  /\ \/ enabled' = enabled \cup {"in"} /\ data' = [data EXCEPT !["in"] = "loop"]
        /\ work' = "enable out"
     \/ UNCHANGED <<enabled, data>> /\ work' = "none"
  /\ UNCHANGED <<bound, req, Options>>

EnableOut ==
  /\ work = "enable out"
  /\ \/ enabled' = enabled \cup {"out"} /\ data' = [data EXCEPT !["out"] = "loop"]
        /\ work' = "queue in"
     \/ enabled' = enabled \ {"in"} /\ work' = "none" /\ UNCHANGED data
  /\ UNCHANGED <<bound, req, Options>>

With(e, at) ==
  [r \in DOMAIN req \cup {Cardinality(DOMAIN req) + 1} |->
     IF r \in DOMAIN req THEN req[r] ELSE [ep |-> e, at |-> at, done |-> FALSE]]

\* alloc_requests(): a request for each endpoint.  What became of the first is
\* not looked at; when the second cannot be queued both are disabled.
QueueIn ==
  /\ work = "queue in" /\ Cardinality(DOMAIN req) < MaxRequests
  /\ req' \in {With("in", "queue"), With("in", "lost")}
  /\ work' = "queue out"
  /\ UNCHANGED <<bound, enabled, data, Options>>

QueueOut ==
  /\ work = "queue out" /\ Cardinality(DOMAIN req) < MaxRequests
  /\ \/ req' = With("out", "queue") /\ UNCHANGED enabled
     \/ req' = Flushed(With("out", "lost"), Eps) /\ enabled' = {}
  /\ work' = "none"
  /\ UNCHANGED <<bound, data, Options>>

\* loopback_complete(): whatever its status the request is queued again on its
\* endpoint; where that fails nobody knows of it any more.
Complete(r) ==
  /\ r \in DOMAIN req /\ req[r].at = "queue"
  /\ \/ req[r].ep \in enabled /\ req' = [req EXCEPT ![r].done = TRUE]
     \/ req' = [req EXCEPT ![r].at = "lost", ![r].done = TRUE]
  /\ UNCHANGED <<bound, enabled, data, work, Options>>

Next ==
  \/ AllocFunction \/ FreeFunction \/ OptsStore
  \/ Bind \/ Unbind \/ SetAlt \/ Disable \/ Disabled
  \/ EnableIn \/ EnableOut \/ QueueIn \/ QueueOut
  \/ \E e \in Eps : DisableEndpoint(e)
  \/ \E r \in Requests : Complete(r)

Spec == Init /\ [][Next]_vars

-----------------------------------------------------------------------------
\* However often the host sets the interface, an endpoint has at most one
\* request, only while it is enabled, and its completion finds the function in
\* driver_data: the requests of the time before came back before new ones go.
OneRequestEach ==
  \A e \in Eps : /\ Cardinality(Queued(e)) <= 1
                 /\ Queued(e) # {} => e \in enabled /\ data[e] = "loop"

\* The options do not change under a function made with them.
OptionsFrozen == refcnt > 0 => used = qlen
=============================================================================
