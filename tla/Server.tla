-------------------------------- MODULE Server --------------------------------
(***************************************************************************)
(* The requests of imageflow_server (imageflow_server/src/lib.rs): what    *)
(* each mounted engine looks for, in the cache of sources, upstream or on  *)
(* the disk, what it stores there and what it answers.  The cache is one   *)
(* that puts whole entries in one step, as DiskCache does; they hold a     *)
(* body as it is or with its length in front.  Upstream and the files of   *)
(* ir4_local may be different each time one looks.                         *)
(***************************************************************************)
EXTENDS Integers, FiniteSets

CONSTANTS
  Threads,
  Requests,        \* an engine and the url or the path it asks for
  Images, Texts,   \* bodies that are images, and others
  None,
  MaxLosses        \* entries that get lost

ServerAssumption == Images \cap Texts = {} /\ None \notin Images \cup Texts /\ MaxLosses \in Nat

VARIABLES
  store,     \* source_cache
  pc, request, held,   \* each thread, its request and the entry it has in hand
  answer,    \* its last answer
  said,      \* bodies upstream has answered for an url, and files that were there
  losses

vars == <<store, pc, request, held, answer, said, losses>>

Bodies == Images \cup Texts
Places == {r.at : r \in Requests}
Proxies == {"permacache_proxy", "permacache_proxy_guess_content_types"}
Forms == {"raw", "counted"}
Entry(form, body) == [form |-> form, body |-> body]
NoEntry == Entry("none", None)
NoRequest == [engine |-> "none", at |-> "none"]
NoAnswer == [status |-> 0, form |-> "none", body |-> None]

(* 404 and failures have no body; some servers name no type.               *)
Replies == [kind : {"ok", "untyped"}, body : Bodies] \cup [kind : {"404", "error"}, body : {None}]

Init ==
  /\ store = [u \in Places |-> NoEntry]
  /\ pc = [t \in Threads |-> "idle"] /\ request = [t \in Threads |-> NoRequest]
  /\ held = [t \in Threads |-> NoEntry] /\ answer = [t \in Threads |-> NoAnswer]
  /\ said = {} /\ losses = 0

Goto(t, where) == pc' = [pc EXCEPT ![t] = where]
At(t) == request[t].at
Respond(t, status, form, body) ==
  /\ answer' = [answer EXCEPT ![t] = [status |-> status, form |-> form, body |-> body]]
  /\ Goto(t, "idle") /\ held' = [held EXCEPT ![t] = NoEntry]
Fail(t, status) == Respond(t, status, "none", None)
(* The panic of a handler: the connection is dropped.                      *)
Dropped == -1
Obtain(t, body, next) ==
  /\ held' = [held EXCEPT ![t] = Entry("raw", body)]
  /\ Goto(t, next) /\ UNCHANGED answer
Hear(t, bodies) == said' = said \cup ({At(t)} \X bodies)

Receive(t) ==
  /\ pc[t] = "idle"
  /\ \E r \in Requests :
       /\ request' = [request EXCEPT ![t] = r]
       /\ Goto(t, IF r.engine = "ir4_local" THEN "local" ELSE "exists")
  /\ answer' = [answer EXCEPT ![t] = NoAnswer]
  /\ UNCHANGED <<store, held, said, losses>>

-----------------------------------------------------------------------------
(* ir4_local_handler: exists, and then read by another call.               *)
LookForFile(t) ==
  /\ pc[t] = "local"
  /\ \/ Fail(t, 404)
     \/ Goto(t, "readfile") /\ UNCHANGED <<held, answer>>
  /\ UNCHANGED <<store, request, said, losses>>

ReadFile(t) ==
  /\ pc[t] = "readfile"
  /\ \/ Fail(t, 500) /\ UNCHANGED said
     \/ \E b \in Bodies : Obtain(t, b, "use") /\ Hear(t, {b})
  /\ UNCHANGED <<store, request, losses>>

Found(t) == IF store[At(t)] = NoEntry THEN "fetch" ELSE "read"
(* fetch_bytes_using_cache_by_url, fetch_response_using_cache_by_url       *)
LookForEntry(t) ==
  /\ pc[t] = "exists" /\ Goto(t, Found(t))
  /\ UNCHANGED <<store, request, held, answer, said, losses>>

(* An entry that got lost since is an error.                               *)
ReadEntry(t) ==
  /\ pc[t] = "read"
  /\ IF store[At(t)] = NoEntry
     THEN Fail(t, 500)
     ELSE held' = [held EXCEPT ![t] = store[At(t)]] /\ Goto(t, "decode") /\ UNCHANGED answer
  /\ UNCHANGED <<store, request, said, losses>>

IsResult(s) == s.kind = "ok"
(* fetch: only 200 is a result, and a response without a type is a panic.  *)
Fetch(t) ==
  /\ pc[t] = "fetch"
  /\ \E s \in Replies :
       /\ IF IsResult(s)
          THEN Obtain(t, s.body, "store")
          ELSE Fail(t, CASE s.kind = "untyped" -> Dropped [] s.kind = "404" -> 404 [] OTHER -> 500)
       /\ Hear(t, IF s.kind = "ok" THEN {s.body} ELSE {})
  /\ UNCHANGED <<store, request, losses>>

(* permacache_proxy stores a serialized list of bytes, the others bytes.   *)
CountedByAll(t) == Entry("counted", held[t].body)   \* variant: for all engines
Stored(t) == Entry(IF request[t].engine = "permacache_proxy" THEN "counted" ELSE "raw", held[t].body)
Store(t) ==
  /\ pc[t] = "store"
  /\ \/ /\ store' = [store EXCEPT ![At(t)] = Stored(t)]
        /\ Goto(t, "use") /\ UNCHANGED <<held, answer>>
     \/ UNCHANGED store /\ Fail(t, 500)                  \* DiskCacheWriteIoError
     \/ UNCHANGED store /\ Fail(t, Dropped)              \* what prepare_for unwraps
  /\ UNCHANGED <<request, said, losses>>

(* What was read is taken for what the engine stores: bytes, or a          *)
(* CachedResponse by permacache_proxy, which nobody stores.                *)
IsReadable(t) == request[t].engine # "permacache_proxy"
Decode(t) ==
  /\ pc[t] = "decode"
  /\ IF IsReadable(t) THEN Goto(t, "use") /\ UNCHANGED <<held, answer>> ELSE Fail(t, Dropped)
  /\ UNCHANGED <<store, request, said, losses>>

(* execute_using fails for what is no image; the proxies pass bytes on.    *)
Use(t) ==
  /\ pc[t] = "use"
  /\ IF request[t].engine \in Proxies
     THEN Respond(t, 200, held[t].form, held[t].body)
     ELSE IF held[t].form = "raw" /\ held[t].body \in Images
          THEN Respond(t, 200, "image", held[t].body)
          ELSE Fail(t, 500)
  /\ UNCHANGED <<store, request, said, losses>>

-----------------------------------------------------------------------------
Lose ==
  /\ losses < MaxLosses /\ losses' = losses + 1
  /\ \E u \in Places : store[u] # NoEntry /\ store' = [store EXCEPT ![u] = NoEntry]
  /\ UNCHANGED <<pc, request, held, answer, said>>

Step(t) ==
  \/ LookForFile(t) \/ ReadFile(t) \/ LookForEntry(t) \/ ReadEntry(t)
  \/ Fetch(t) \/ Store(t) \/ Decode(t) \/ Use(t)
Next == (\E t \in Threads : Receive(t) \/ Step(t)) \/ Lose

Spec == Init /\ [][Next]_vars

-----------------------------------------------------------------------------
TypeOK ==
  /\ store \in [Places -> [form : Forms, body : Bodies] \cup {NoEntry}]
  /\ pc \in [Threads -> {"idle", "local", "readfile", "exists", "read", "fetch", "store", "decode", "use"}]
  /\ request \in [Threads -> Requests \cup {NoRequest}]
  /\ \A t \in Threads :
       /\ answer[t].status \in {Dropped, 0, 200, 404, 500}
       /\ held[t] # NoEntry <=> pc[t] \in {"store", "decode", "use"}
  /\ said \subseteq Places \X Bodies /\ losses \in 0..MaxLosses

(* Whoever asks for an url is answered with a body that came from there,   *)
(* as it came, whether it was fetched now, by an earlier request or by one *)
(* at the same time, as long as permacache_proxy, which stores otherwise,  *)
(* shares no url with the others (lib.rs:189-247).                         *)
ServedIsWhatWasSaid ==
  \A t \in Threads : answer[t].status = 200 =>
    <<At(t), answer[t].body>> \in said /\ answer[t].form # "counted"

(* A body that is being answered out of the cache was once answered by     *)
(* upstream with 200: failures do not outlast the request that met them    *)
(* (lib.rs:203).                                                           *)
OnlyResultsAreCached ==
  \A u \in Places : store[u] # NoEntry => <<u, store[u].body>> \in said

(* A request of bytes that finds an entry is answered without upstream,    *)
(* but for an entry that gets lost on the way (lib.rs:192-200): with the   *)
(* cache filled and nothing lost there are no failures.                    *)
FilledNeedsNoUpstream ==
  [][\A t \in Threads :
       /\ request[t].engine = "permacache_proxy_guess_content_types"
       /\ pc[t] = "read" /\ pc'[t] = "idle"
       => losses > 0]_vars

(* "permacache_proxy - static file proxy with permanent caching"           *)
(* (imageflow_server/README.md:9): what is in the cache is served from it. *)
CachedIsServed ==
  \A t \in Threads : answer[t].status = Dropped /\ request[t].engine = "permacache_proxy" => store[At(t)] = NoEntry
=============================================================================
