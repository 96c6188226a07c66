-------------------------------- MODULE Routes --------------------------------
(***************************************************************************)
(* Routes, the API requests about them and what a request asks for:        *)
(* store.Route, RouteEdit and the decisions of AddRoute, RemoveRoute and   *)
(* EditRoute in internal/daemon/daemon.go.  Requests are those that pass   *)
(* ValidateName and ValidateTarget; the others change nothing.             *)
(***************************************************************************)
CONSTANTS Domains, Targets,
          None,       \* no route, no call, no answer
          Keep        \* "leave this field alone", in a patch

Route == [target : Targets, enabled : BOOLEAN, shared : BOOLEAN]
RouteMap == [Domains -> Route \cup {None}]
Patch == [target : Targets \cup {Keep}, enabled : BOOLEAN \cup {Keep},
          shared : BOOLEAN \cup {Keep}]

Request == [op : {"add"}, dom : Domains, target : Targets, shared : BOOLEAN]
             \cup [op : {"remove"}, dom : Domains]
             \cup [op : {"edit"}, dom : Domains, patch : Patch]

Refusal == {"duplicate", "notFound", "storeWriteFailed"}
Outcomes == Refusal \cup {"ok"}

\* Mutant: an absent field of the patch is stored.
OrElseNew(new, old) == new

OrElse(new, old) == IF new = Keep THEN old ELSE new

Patched(r, p) == [target |-> OrElse(p.target, r.target),
                  enabled |-> OrElse(p.enabled, r.enabled),
                  shared |-> OrElse(p.shared, r.shared)]

\* The verdict on request q where the route of its domain is r, ...
Verdict(q, r) ==
  IF q.op = "add" THEN IF r = None THEN "ok" ELSE "duplicate"
                  ELSE IF r = None THEN "notFound" ELSE "ok"

\* ... and what an accepted request makes of that route.
Requested(q, r) ==
  IF q.op = "add" THEN [target |-> q.target, enabled |-> TRUE, shared |-> q.shared]
  ELSE IF q.op = "remove" THEN None
  ELSE Patched(r, q.patch)
=============================================================================
