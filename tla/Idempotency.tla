----------------------------- MODULE Idempotency -----------------------------
(***************************************************************************)
(* POST /book behind the idempotency middleware: a request may carry a key,*)
(* and the answer of an earlier request with that key and the same body is *)
(* replayed instead of booking. The middleware reads the cache before the  *)
(* handler and writes it after, and holds nothing in between.              *)
(*                                                                         *)
(* A body is named by the first order it asks for. An entry written before *)
(* fingerprints were stored has none: it answers an earlier request, which *)
(* is outside this model, and any request with its key is taken for that   *)
(* one.                                                                    *)
(***************************************************************************)
EXTENDS Reservation

CONSTANTS Keys,       \* the well-formed values of the header Idempotency-Key
          NoKey,
          KeyOf,      \* [Orders -> Keys \cup {NoKey}]
          BodyOf,     \* [Orders -> Orders]: two requests have the same body,
                      \* hence the same user_id and quantity
          Earlier,    \* the request a legacy entry answers
          Nothing

ASSUME IdempotencyAssumption ==
    /\ NoKey \notin Keys
    /\ KeyOf \in [Orders -> Keys \cup {NoKey}]
    /\ BodyOf \in [Orders -> Orders]
    /\ \A o, p \in Orders : BodyOf[o] = BodyOf[p] =>
          CustomerOf[o] = CustomerOf[p] /\ QuantityOf[o] = QuantityOf[p]
    /\ {Earlier, Nothing} \cap Orders = {}
    /\ Earlier # Nothing

VARIABLES cache,   \* [Keys -> Entries]: idempotency:<key>
          mw       \* [Orders -> MwSteps]: where the middleware is with a request

idemVars == <<vars, cache, mw>>

Entries == [answers : Orders \cup {Earlier, Nothing}, body : Orders \cup {Nothing}]
Empty == [answers |-> Nothing, body |-> Nothing]
Legacy == [answers |-> Earlier, body |-> Nothing]

MwSteps == {"lookup", "handler", "suspended", "done", "replayed", "conflict"}

\* A request without a key passes the middleware by.
IdempotencyInit ==
    /\ Init
    /\ cache \in [Keys -> {Empty, Legacy}]
    /\ mw = [o \in Orders |-> IF KeyOf[o] = NoKey THEN "done" ELSE "lookup"]

-----------------------------------------------------------------------------
Goto(o, s) == mw' = [mw EXCEPT ![o] = s]

\* redisIdempotencyRepository.Set, best effort: the entry of o's key answers p.
Store(o, p) ==
    \/ /\ cache' = [cache EXCEPT ![KeyOf[o]] = [answers |-> p, body |-> BodyOf[o]]]
       /\ UNCHANGED budget
    \/ Fault("redis") /\ UNCHANGED cache

\* replayCached: the handler does not run.
Replay(o) == Goto(o, "replayed") /\ Answer(o, "failed")

\* redisIdempotencyRepository.Get, and what follows from it. When it fails the
\* request is served as if it had no key, and its answer is not cached.
Lookup(o) ==
    /\ mw[o] = "lookup"
    /\ LET hit == cache[KeyOf[o]] IN
        \/ /\ hit = Empty
           /\ Goto(o, "handler")
           /\ UNCHANGED <<budget, api, cache>>
        \/ /\ hit # Empty
           /\ hit.body = Nothing
           /\ Store(o, hit.answers)
           /\ Replay(o)
        \/ /\ hit.body = BodyOf[o]
           /\ Replay(o)
           /\ UNCHANGED <<budget, cache>>
        \/ /\ hit.body \notin {Nothing, BodyOf[o]}
           /\ Goto(o, "conflict")
           /\ Answer(o, "failed")
           /\ UNCHANGED <<budget, cache>>
        \/ /\ Fault("redis")
           /\ Goto(o, "suspended")
           /\ UNCHANGED <<api, cache>>
    /\ UNCHANGED <<phase, pgVars, redisVars, meta, queueVars, workerVars>>

\* HandleBook: the booking service, behind the lookup.
Handle(o) ==
    /\ mw[o] \in {"handler", "suspended", "done"}
    /\ Api(o)
    /\ UNCHANGED <<cache, mw>>

\* mapError: the status an answer of the booking service is sent with.
HttpStatus(a) == CASE a = "accepted" -> 202 [] a = "sold_out" -> 409 [] OTHER -> 500

\* Mutant of shouldCacheStatus: refusals are cached too.
cacheEveryStatus(s) == s \in 200..599

shouldCacheStatus(s) == s \in 200..299

\* After the handler. Any other answer than a 2xx leaves no trace.
Save(o) ==
    /\ mw[o] = "handler"
    /\ api[o] \in {"accepted", "sold_out", "failed"}
    /\ shouldCacheStatus(HttpStatus(api[o]))
    /\ Store(o, o)
    /\ Goto(o, "done")
    /\ UNCHANGED <<phase, pgVars, redisVars, resVars>>

Request(o) == Lookup(o) \/ Handle(o) \/ Save(o)

\* What goes on behind the API.
Behind ==
    \/ \E o \in Orders : Lapse(o)
    \/ \E w \in Workers : Work(w) \/ Crash(w)
    \/ EvictMetadata
    \/ Rest

IdempotencyNext ==
    \/ \E o \in Orders : Request(o)
    \/ Behind /\ UNCHANGED <<cache, mw>>

IdempotencySpec == IdempotencyInit /\ [][IdempotencyNext]_idemVars

\* As FairSpec: the server answers its requests, the workers run.
IdempotencyFairSpec ==
    /\ IdempotencySpec
    /\ \A o \in Orders : WF_idemVars(Request(o))
    /\ \A w \in Workers : WF_idemVars(Work(w) /\ UNCHANGED <<cache, mw>>)

-----------------------------------------------------------------------------
\* A replayed answer is that of an accepted booking which the same customer
\* asked for with the same body, never of a refusal that may have passed since,
\* whichever requests with one key overlap, fail or write over each other's
\* entries. An entry without a fingerprint is the exception.
ReplayIsOfSameRequest ==
    [][\A o \in Orders :
        mw[o] = "lookup" /\ mw'[o] = "replayed" =>
            LET p == cache[KeyOf[o]].answers IN
            \/ p = Earlier
            \/ /\ api[p] = "accepted"
               /\ CustomerOf[p] = CustomerOf[o]
               /\ BodyOf[p] = BodyOf[o]]_idemVars
=============================================================================
