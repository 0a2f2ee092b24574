---------------------------- MODULE LicenseManager ----------------------------
(***************************************************************************)
(* The licenses of a process and what they permit                          *)
(* (imageflow_helpers/src/licensing: mod.rs, license_pair.rs, compute.rs): *)
(* threads add licenses to a list that only grows, a fetcher hands in the  *)
(* licenses that placeholders stand for, and computations walk the list    *)
(* several times while time passes.                                        *)
(***************************************************************************)
EXTENDS Integers, FiniteSets, FiniteSetsExt, Sequences

CONSTANTS
  Threads,
  Texts,     \* license texts as they are configured
  BlobOf,    \* the license a text deserializes to, or none
  Remotes,   \* the licenses a license server may answer with
  Required,  \* features in use
  Scopes,    \* All, or sequences of ids
  BuildDate, ThirtySeconds, Minute, MaxNow   \* times, and where they stop

TimeAssumption ==
  /\ ThirtySeconds \in Nat /\ Minute \in Nat /\ BuildDate \in Int /\ MaxNow \in Nat
  /\ LET blobs == (UNION {BlobOf[x] : x \in Texts}) \cup Remotes
         numbers == UNION {b.issued \cup b.expires \cup b.grace : b \in blobs}
     IN numbers \subseteq Int /\ IsFiniteSet(numbers)

Nothing == "none"
All == <<"all">>

VARIABLES
  licenses, \* the AppendList: the license of a text and its remote one, if any
  aliases,  \* the id of each text that was parsed
  now,      \* since the manager was created
  pc,       \* where each thread is
  job,      \* its text, the scope of its computation and what it holds
  answer    \* what it was answered

vars == <<licenses, aliases, now, pc, job, answer>>

AllBlobs == UNION {BlobOf[x] : x \in Texts}
TheBlob(t) == CHOOSE b \in BlobOf[job[t].text] : TRUE
Indices == 1..Len(licenses)
NoJob == [text |-> Nothing, scope |-> <<>>, seen |-> {}, waited |-> {}, until |-> {}]

Init ==
  /\ licenses = <<>> /\ aliases = [x \in Texts |-> Nothing] /\ now = 0
  /\ pc = [t \in Threads |-> "idle"] /\ job = [t \in Threads |-> NoJob]
  /\ answer = [t \in Threads |-> <<Nothing>>]

Goto(t, where) == pc' = [pc EXCEPT ![t] = where]
Keeping(t, j) == job' = [job EXCEPT ![t] = j]
Answer(t, a) == Goto(t, "idle") /\ answer' = [answer EXCEPT ![t] = a] /\ Keeping(t, [NoJob EXCEPT !.seen = job[t].seen])
IdOf(i) == licenses[i].first.id

(* get_by_id: the first of the list                                        *)
GetById(id) ==
  LET found == {i \in Indices : IdOf(i) = id} IN IF found = {} THEN 0 ELSE CHOOSE i \in found : \A j \in found : i <= j

-----------------------------------------------------------------------------
(* get_or_add                                                              *)
GetOrAdd(t) ==
  /\ pc[t] = "idle"
  /\ \E x \in Texts : job' = [job EXCEPT ![t] = [NoJob EXCEPT !.text = x]]
  /\ answer' = [answer EXCEPT ![t] = <<Nothing>>]
  /\ Goto(t, "alias") /\ UNCHANGED <<licenses, aliases, now>>

(* get_by_alias: with the text, and not with the id that was found for it. *)
FindAlias(t) ==
  LET x == job[t].text  i == GetById(x) IN
  /\ pc[t] = "alias"
  /\ IF aliases[x] # Nothing /\ i # 0
     THEN Answer(t, <<"license", i>>)
     ELSE Goto(t, "parse") /\ UNCHANGED <<job, answer>>
  /\ UNCHANGED <<licenses, aliases, now>>

(* deserialize; a placeholder without a secret is a panic of the parser.   *)
Parse(t) ==
  LET x == job[t].text IN
  /\ pc[t] = "parse"
  /\ IF BlobOf[x] = {}
     THEN Answer(t, <<"error">>) /\ UNCHANGED aliases
     ELSE IF TheBlob(t).placeholder /\ ~TheBlob(t).secret
     THEN Answer(t, <<"panic">>) /\ UNCHANGED aliases
     ELSE /\ aliases' = [aliases EXCEPT ![x] = TheBlob(t).id]
          /\ Goto(t, "find") /\ UNCHANGED <<job, answer>>
  /\ UNCHANGED <<licenses, now>>

Find(t) ==
  LET i == GetById(TheBlob(t).id) IN
  /\ pc[t] = "find"
  /\ IF i # 0 THEN Answer(t, <<"license", i>>) ELSE Goto(t, "append") /\ UNCHANGED <<job, answer>>
  /\ UNCHANGED <<licenses, aliases, now>>

Appended(b) == Append(licenses, [first |-> b, remote |-> {}])

AppendLicense(t) ==
  /\ pc[t] = "append"
  /\ licenses' = Appended(TheBlob(t)) /\ Goto(t, "get")
  /\ UNCHANGED <<aliases, now, job, answer>>

(* get_by_id again, and not the license that was appended.                 *)
Get(t) ==
  /\ pc[t] = "get"
  /\ Answer(t, <<"license", GetById(TheBlob(t).id)>>)
  /\ UNCHANGED <<licenses, aliases, now>>

(* update_remote, for the license that get_by_id finds.                    *)
RemoteChecked(i, r) == r.id = IdOf(i)
UpdateRemote ==
  \E r \in Remotes, i \in Indices :
    /\ licenses[i].first.placeholder /\ i = GetById(IdOf(i)) /\ RemoteChecked(i, r)
    /\ licenses' = [licenses EXCEPT ![i].remote = {r}]
    /\ UNCHANGED <<aliases, now, pc, job, answer>>

-----------------------------------------------------------------------------
(* An optional field of a license is a set of at most one value.           *)
Before(dates, when) == \E d \in dates : d < when
IsExpired(b) == Before(b.expires, now)
HasBegun(b) == Before(b.issued, now)
IsBuildDateOk(b) == \A d \in b.builds : d > BuildDate
ValidateLicense(b) == ~IsExpired(b) /\ HasBegun(b) /\ IsBuildDateOk(b) /\ ~b.revoked
ValidateUsage(b) == ValidateLicense(b) /\ Required \subseteq b.features

IsPending(i) == licenses[i].first.placeholder /\ licenses[i].remote = {}

GraceMinutes(b) == IF b.grace = {} THEN 6 ELSE CHOOSE m \in b.grace : TRUE
(* grace_period_for: a set with the end of the period, if there is one.    *)
GracePeriodFor(i) ==
  LET b == licenses[i].first  end == Minute * GraceMinutes(b) IN
  IF ~ValidateLicense(b) \/ end < now THEN {}
  ELSE IF ThirtySeconds > now THEN {ThirtySeconds} ELSE {end}

DatesOfExpiry(b) == b.expires   \* variant: licenses not issued yet are forgotten
DatesOf(b) == b.issued \cup b.expires
Dates(i) ==
  DatesOf(licenses[i].first) \cup UNION {DatesOf(r) : r \in licenses[i].remote}

(* collect_from; nothing depends on the order.                             *)
CollectWanted(scope) ==   \* variant: ids that are not found are not left out
  IF scope = All THEN Indices ELSE {GetById(scope[k]) : k \in DOMAIN scope}
CollectFrom(scope) == IF scope = All THEN Indices ELSE {GetById(scope[k]) : k \in DOMAIN scope} \ {0}

Collect(t) ==
  /\ pc[t] = "idle"
  /\ \E s \in Scopes : job' = [job EXCEPT ![t] = [NoJob EXCEPT !.scope = s, !.seen = CollectFrom(s)]]
  /\ answer' = [answer EXCEPT ![t] = <<Nothing>>]
  /\ Goto(t, "grace") /\ UNCHANGED <<licenses, aliases, now>>

Seen(t) == job[t].seen

Grace(t) ==
  /\ pc[t] = "grace"
  /\ job' = [job EXCEPT ![t].waited = UNION {GracePeriodFor(i) : i \in {j \in Seen(t) : IsPending(j)}}]
  /\ Goto(t, "dates") /\ UNCHANGED <<licenses, aliases, now, answer>>

CollectDates(t) ==
  /\ pc[t] = "dates"
  /\ LET all == job[t].waited \cup UNION {Dates(i) : i \in Seen(t)} IN
     job' = [job EXCEPT ![t].until = IF all = {} THEN {} ELSE {Min(all)}]
  /\ Goto(t, "judge") /\ UNCHANGED <<licenses, aliases, now, answer>>

Permits(i) ==
  IF licenses[i].first.placeholder
  THEN \E r \in licenses[i].remote : ValidateUsage(r)
  ELSE ValidateUsage(licenses[i].first)

(* A license in its grace period permits everything.                       *)
Judge(t) ==
  /\ pc[t] = "judge"
  /\ Answer(t, <<"licensed", job[t].waited # {} \/ \E i \in Seen(t) : Permits(i), job[t].until>>)
  /\ UNCHANGED <<licenses, aliases, now>>

Tick == now < MaxNow /\ now' = now + 1 /\ UNCHANGED <<licenses, aliases, pc, job, answer>>

Step(t) ==
  \/ GetOrAdd(t) \/ FindAlias(t) \/ Parse(t) \/ Find(t) \/ AppendLicense(t) \/ Get(t)
  \/ Collect(t) \/ Grace(t) \/ CollectDates(t) \/ Judge(t)
Next == (\E t \in Threads : Step(t)) \/ UpdateRemote \/ Tick

Spec == Init /\ [][Next]_vars

-----------------------------------------------------------------------------
TypeOK ==
  /\ licenses \in Seq([first : AllBlobs, remote : SUBSET Remotes])
  /\ aliases \in [Texts -> {b.id : b \in AllBlobs} \cup {Nothing}] /\ now \in 0..MaxNow
  /\ pc \in [Threads -> {"idle", "alias", "parse", "find", "append", "get", "grace", "dates", "judge"}]
  /\ \A t \in Threads : Seen(t) \subseteq Indices /\ job[t].text \in Texts \cup {Nothing}

(* "This ensures that we never access duplicates (which can be created in  *)
(* race conditions)" (mod.rs:116): all that ask for licenses of one id are *)
(* answered with the same one, however their calls overlap.                *)
SameLicenseForAll ==
  \A t, u \in Threads :
    answer[t][1] = "license" /\ answer[u][1] = "license" /\ IdOf(answer[t][2]) = IdOf(answer[u][2]) =>
      answer[t][2] = answer[u][2]

(* A placeholder is answered for by a license of its own id only, and a    *)
(* license that needs no other has none (license_pair.rs:38-44).           *)
RemoteIsItsOwn == 
  \A i \in Indices : \A r \in licenses[i].remote : licenses[i].first.placeholder /\ r.id = IdOf(i)

(* When every license a computation looks for by its id was revoked by the *)
(* server before it began, it permits nothing, whatever is added meanwhile *)
(* (compute.rs:147-151, :255-271).                                         *)
RevokedPermitsNothing ==
  [][\A t \in Threads :
       /\ pc[t] = "judge" /\ pc'[t] = "idle" /\ job[t].scope # All /\ job[t].waited = {}
       /\ \A i \in Seen(t) : \E r \in licenses[i].remote : r.revoked
     => ~answer'[t][2]]_vars

(* An answer holds until the time it names: nothing that was asked changes *)
(* by the clock alone before then (compute.rs:248-251).                    *)
Verdict(seen) ==
  (\E i \in seen : IsPending(i) /\ GracePeriodFor(i) # {}) \/ (\E i \in seen : Permits(i))
HoldsUntilExpires ==
  \A t \in Threads :
    /\ answer[t][1] = "licensed" /\ \A d \in answer[t][3] : now <= d
    /\ \A i \in Seen(t) : licenses[i].remote = {}
    => Verdict(Seen(t)) = answer[t][2]
=============================================================================
