---------------------------- MODULE ApiVersions ----------------------------
(***************************************************************************)
(* Contract versions of crates/api-version: resolve, the transform chain   *)
(* and the negotiate middleware, over the life of a service that releases  *)
(* new contracts, raises its floor and deletes the transforms the new      *)
(* floor strands (lib.rs:79-82), while pins stay where they are stored.    *)
(*                                                                         *)
(* A version is its place in the order of dates.  The shape of a body on a *)
(* route is the set of changes that have landed there; a transform undoes  *)
(* its own change and makes nonsense of a body it was not written against. *)
(***************************************************************************)
EXTENDS Naturals, Sequences, SequencesExt

CONSTANTS MaxVersion,  \* the last contract this instance releases
          Routes,
          None

VARIABLES
    ctx,       \* the ApiVersionContext of the running build
    contract,  \* every change ever made
    todo,      \* the transforms this build has yet to register before it serves
    served     \* the request in negotiate, or the last one this build answered

pvars == <<ctx, contract, todo, served>>

Versions == 1..MaxVersion
Changes == [version : Versions, route : Routes]

Init ==
    /\ ctx = [current |-> 1, oldest |-> 1, default |-> 1, transforms |-> <<>>]
    /\ contract = {}
    /\ todo = {}
    /\ served = None

\* The shape of bodies on route at a version.
Shape(v, route) == {c \in contract : c.version <= v /\ c.route = route}

-----------------------------------------------------------------------------
\* transform.rs

\* TransformRegistry::with, in any order: push, then sort_by_key.  The sort is stable and
\* the rest was sorted before, so the new transform ends up behind those of its version.
With(t) ==
    /\ t \in todo /\ todo' = todo \ {t}
    /\ \E k \in 0..Len(ctx.transforms) :
          /\ \A i \in 1..Len(ctx.transforms) : ctx.transforms[i].version <= t.version <=> i <= k
          /\ ctx' = [ctx EXCEPT !.transforms = InsertAt(@, k + 1, t)]
    /\ UNCHANGED <<contract, served>>

\* One transform across its change (external: the product's code).
Downgrade(body, t) ==
    IF t \in body /\ \A c \in body : c.version <= t.version THEN body \ {t} ELSE {None}
Upgrade(body, t) ==
    IF t \notin body /\ \A c \in body : c # None /\ c.version < t.version THEN body \cup {t}
    ELSE {None}

\* Whether a transform is across the way of a request at version v on a route.
Applies(t, v, route) == t.version > v /\ t.route = route

\* touches
Touches(v, route) ==
    \E i \in 1..Len(ctx.transforms) : Applies(ctx.transforms[i], v, route)

\* A request between rewrite_request and the answer, its body before transform number at.
Rewriting(phase) == served # None /\ served.status = 0 /\ served.phase = phase

\* upgrade_request: oldest change first
UpgradeRequest ==
    /\ Rewriting("request") /\ served.at <= Len(ctx.transforms)
    /\ LET t == ctx.transforms[served.at]
       IN  served' = [served EXCEPT !.at = @ + 1,
                         !.saw = IF Applies(t, served.version, served.route) THEN Upgrade(@, t)
                                 ELSE @]
    /\ UNCHANGED <<ctx, contract, todo>>

Downgraded(t) ==
    served' = [served EXCEPT !.at = @ - 1,
                  !.body = IF Applies(t, served.version, served.route) THEN Downgrade(@, t)
                           ELSE @]

\* Mutant: the chain is walked oldest change first.
DowngradeResponseOldestFirst ==
    /\ Rewriting("response") /\ served.at >= 1
    /\ Downgraded(ctx.transforms[Len(ctx.transforms) + 1 - served.at])
    /\ UNCHANGED <<ctx, contract, todo>>

\* downgrade_response: newest change first
DowngradeResponse ==
    /\ Rewriting("response") /\ served.at >= 1
    /\ Downgraded(ctx.transforms[served.at])
    /\ UNCHANGED <<ctx, contract, todo>>

-----------------------------------------------------------------------------
\* policy.rs

\* What a header may hold: nothing, no date (not ten characters, not a calendar day), or a
\* date, which need not be a contract's.
RawHeaders == {None, 0} \cup 1..(MaxVersion + 1)

\* ApiVersionContext::resolve.  Only a header is compared with current and the floor.
Resolve(raw, pin) ==
    IF raw = None THEN [ok |-> TRUE, version |-> IF pin = None THEN ctx.default ELSE pin]
    ELSE IF raw = 0 THEN [ok |-> FALSE, why |-> "Malformed"]
    ELSE IF raw > ctx.current THEN [ok |-> FALSE, why |-> "FromTheFuture"]
    ELSE IF raw < ctx.oldest THEN [ok |-> FALSE, why |-> "Sunset"]
    ELSE [ok |-> TRUE, version |-> raw]

\* VersionRejection::into_response
RejectionStatus(why) ==
    CASE why \in {"Malformed", "FromTheFuture"} -> 400
      [] why = "Sunset" -> 410
      [] why = "NotTransformable" -> 500

\* new, with_default (never newer than current) and with_registry, before any transform
Context(current, oldest, default) ==
    [current |-> current, oldest |-> oldest,
     default |-> IF default <= current THEN default ELSE current, transforms |-> <<>>]

-----------------------------------------------------------------------------
\* Deployments

Kept(changes, floor) == {c \in changes : c.version > floor}

\* A new contract with changes on some routes; transforms are written with it.
Release(routes) ==
    /\ ctx.current < MaxVersion
    /\ contract' = contract \cup {[version |-> ctx.current + 1, route |-> r] : r \in routes}
    /\ todo' = Kept(contract', ctx.oldest)
    /\ ctx' = Context(ctx.current + 1, ctx.oldest, ctx.default)
    /\ served' = None

\* The floor is raised and the stranded transforms are deleted; the default is left to new,
\* or set with with_default, which does not compare it with the floor.
RaiseFloor(oldest, default) ==
    /\ oldest \in ctx.oldest + 1 .. ctx.current
    /\ todo' = Kept(contract, oldest)
    /\ ctx' = Context(ctx.current, oldest, default)
    /\ served' = None
    /\ UNCHANGED contract

-----------------------------------------------------------------------------
\* layer.rs

\* Bodies: JSON that fits, JSON over max_body_bytes, JSON that does not parse or is empty,
\* and everything is_json does not know.
Kinds == {"json", "big", "opaque", "stream"}

Reject(why) == served' = [status |-> RejectionStatus(why), version |-> None]

\* The answer, and under which version: SERVED_HEADER
Respond(v, route, saw, body) ==
    served' = [status |-> 200, version |-> v, route |-> route, saw |-> saw, body |-> body]

\* A body that is passed on as it is, if it has a shape.
Untouched(shape, kind) == IF kind \in {"json", "big"} THEN shape ELSE None

\* rewrite_request up to the transforms: to_bytes refuses a body over the cap, and what is
\* not JSON or does not parse goes on as it is.
RewriteRequest(v, route, kind) ==
    IF kind = "big" THEN Reject("NotTransformable")
    ELSE served' = [status |-> 0, phase |-> "request", version |-> v, route |-> route,
                    at |-> IF kind = "json" THEN 1 ELSE Len(ctx.transforms) + 1,
                    saw |-> IF kind = "json" THEN Shape(v, route) ELSE None, body |-> None]

\* The handler has run and answers in the current shape; rewrite_response up to the
\* transforms, with the same early returns.
RewriteResponse(kind) ==
    /\ Rewriting("request") /\ served.at = Len(ctx.transforms) + 1
    /\ IF kind = "big" THEN Reject("NotTransformable")
       ELSE served' = [served EXCEPT !.phase = "response",
               !.at = IF kind = "json" THEN Len(ctx.transforms) ELSE 0,
               !.body = IF kind = "json" THEN Shape(ctx.current, served.route) ELSE None]
    /\ UNCHANGED <<ctx, contract, todo>>

\* The end of negotiate.
Rewritten ==
    /\ Rewriting("response") /\ served.at = 0
    /\ Respond(served.version, served.route, served.saw, served.body)
    /\ UNCHANGED <<ctx, contract, todo>>

\* negotiate: resolve, then pass through or rewrite both ways.
Negotiate(raw, pin, route, sent) ==
    LET r == Resolve(raw, pin)
    IN  \/ ~r.ok /\ Reject(r.why)
        \/ /\ r.ok /\ ~Touches(r.version, route)
           /\ \E answered \in Kinds :
                 Respond(r.version, route, Untouched(Shape(r.version, route), sent),
                         Untouched(Shape(ctx.current, route), answered))
        \/ r.ok /\ Touches(r.version, route) /\ RewriteRequest(r.version, route, sent)

\* A request whose pin was stored when its version was current.  A build keeps nothing from
\* one request to the next, so each is followed on its own.
Request(route) ==
    /\ todo = {} /\ served = None
    /\ \E raw \in RawHeaders, pin \in {None} \cup 1..ctx.current, sent \in Kinds :
          Negotiate(raw, pin, route, sent)
    /\ UNCHANGED <<ctx, contract, todo>>

\* The answer has reached the client.
Answered ==
    /\ served # None /\ served.status # 0 /\ served' = None
    /\ UNCHANGED <<ctx, contract, todo>>

Next ==
    \/ Answered \/ UpgradeRequest \/ DowngradeResponse \/ Rewritten
    \/ \E kind \in Kinds : RewriteResponse(kind)
    \/ \E t \in todo : With(t)
    \/ \E routes \in SUBSET Routes : Release(routes)
    \/ \E oldest, default \in Versions : RaiseFloor(oldest, default)
    \/ \E route \in Routes : Request(route)

-----------------------------------------------------------------------------

\* transform.rs:89-93, policy.rs:97-100: whatever has been released, deleted and registered
\* in whatever order, a client at a supported version is answered in the shape of its
\* version, and its request reaches the handler in the current one, or the answer is an error.
ServedInItsShape ==
    (served # None /\ served.status = 200 /\ served.version \in ctx.oldest..ctx.current) =>
            /\ served.body \in {None, Shape(served.version, served.route)}
            /\ served.saw \in {None, Shape(ctx.current, served.route)}

\* policy.rs:44-45 and lib.rs:79-80: anything older than oldest_supported is answered with
\* 410 and not quietly served.
SunsetIsGone ==
    (served # None /\ served.status = 200) => served.version >= ctx.oldest

=============================================================================
