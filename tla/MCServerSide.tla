----------------------------- MODULE MCServerSide -----------------------------
(***************************************************************************)
(* Instances for TLC of the server and of the licenses: the folder of      *)
(* blobs, the requests, and the texts, the cache and the verdicts of       *)
(* licenses.                                                               *)
(*                                                                         *)
(* The models share no state; a behaviour looks at one of them, chosen by  *)
(* `part`, while the others rest.                                          *)
(***************************************************************************)
EXTENDS DiskCache, Sequences, TLC

CONSTANTS
  Parts,                                                  \* what to look at
  Requests, Images, OtherBodies, MaxLosses,               \* of Server
  Tool, LicenseKeys, CacheHarm,                           \* of LicenseCache; Tool runs in another process
  LicenseTexts, BlobOf, Remotes, Required, Scopes,        \* of LicenseManager
  BuildDate, ThirtySeconds, Minute, MaxNow,
  Licenses, KeyRings, DigestOf(_), Byte                   \* of LicenseText

VARIABLES
  part,
  store, serving, request, held, answered, said, losses,                         \* of Server
  memory, disk, lock, caching, cacheCall, cached, alone, interrupted, cacheHarm, \* of LicenseCache
  licenses, aliases, now, judging, job, verdict,                                 \* of LicenseManager
  license, keys, reading, key, base, exp, power                                  \* of LicenseText

requestVars == <<store, serving, request, held, answered, said, losses>>
cacheVars   == <<memory, disk, lock, caching, cacheCall, cached, alone, interrupted, cacheHarm>>
licenseVars == <<licenses, aliases, now, judging, job, verdict>>
textVars    == <<license, keys, reading, key, base, exp, power>>
serverVars  == <<part, vars, requestVars, cacheVars, licenseVars, textVars>>

ProcessOf == [t \in Threads \cup {Tool} |-> IF t = Tool THEN "tool" ELSE "server"]

Requested == INSTANCE Server WITH Texts <- OtherBodies, pc <- serving, answer <- answered
Cached    == INSTANCE LicenseCache WITH
               Threads <- Threads \cup {Tool}, Keys <- LicenseKeys, Values <- Blobs, MaxHarm <- CacheHarm,
               pc <- caching, call <- cacheCall, result <- cached, harm <- cacheHarm
Managed   == INSTANCE LicenseManager WITH Texts <- LicenseTexts, pc <- judging, answer <- verdict
Text      == INSTANCE LicenseText WITH pc <- reading, result <- power

ASSUME PartsAssumption ==
  /\ Parts \subseteq {"folder", "requests", "license cache", "licenses", "license text"}
  /\ Requested!ServerAssumption /\ Cached!HarmAssumption /\ Managed!TimeAssumption /\ Text!ByteAssumption

RestingLicense == CHOOSE x \in Licenses : TRUE
RestingKeys == CHOOSE x \in KeyRings : TRUE
ServerSideInit ==
  /\ part \in Parts
  /\ Init /\ Requested!Init /\ Cached!Init /\ Managed!Init
  /\ part = "license text" \/ (license = RestingLicense /\ keys = RestingKeys)
  /\ Text!Init

FolderStep   == part = "folder" /\ Next /\ UNCHANGED <<part, requestVars, cacheVars, licenseVars, textVars>>
RequestStep  == part = "requests" /\ Requested!Next /\ UNCHANGED <<part, vars, cacheVars, licenseVars, textVars>>
CacheStep    == part = "license cache" /\ Cached!Next /\ UNCHANGED <<part, vars, requestVars, licenseVars, textVars>>
LicenseStep  == part = "licenses" /\ Managed!Next /\ UNCHANGED <<part, vars, requestVars, cacheVars, textVars>>
TextStep     == part = "license text" /\ Text!Next /\ UNCHANGED <<part, vars, requestVars, cacheVars, licenseVars>>
TextIsRead   == reading \in {"accepted", "error", "panicked"} /\ UNCHANGED serverVars

ServerSideNext == FolderStep \/ RequestStep \/ CacheStep \/ LicenseStep \/ TextStep \/ TextIsRead
ServerSideSpec == ServerSideInit /\ [][ServerSideNext]_serverVars

-----------------------------------------------------------------------------
\* Instances.  Both entries of the folder are in one directory.
OneLeaf == [k \in Keys |-> "leaf"]

\* Two engines share an url; permacache_proxy has one of its own.
SomeRequests ==
  {[engine |-> "ir4_http", at |-> "u1"], [engine |-> "permacache_proxy_guess_content_types", at |-> "u1"],
   [engine |-> "permacache_proxy", at |-> "u2"], [engine |-> "ir4_local", at |-> "f1"]}
ProxyRequests == {[engine |-> "permacache_proxy", at |-> "u2"]}

\* A placeholder and a license of the same id that begins late, and texts that are
\* refused; what the license server says of the placeholder, and of another.
\* Thirty seconds are one unit of time.
Blob(id, placeholder, issued, expires, features) ==
  [id |-> id, placeholder |-> placeholder, secret |-> TRUE, issued |-> issued, expires |-> expires,
   builds |-> {}, revoked |-> FALSE, features |-> features, grace |-> IF placeholder THEN {1} ELSE {}]
SomeBlobs ==
  [placeholder |-> {Blob("acme", TRUE, {-9}, {}, {})},
   full |-> {Blob("acme", FALSE, {0}, {2}, {"R4Elite"})},
   site |-> {Blob("site", FALSE, {0}, {2}, {"R4Elite"})},
   broken |-> {},
   secretless |-> {[Blob("bare", TRUE, {-9}, {}, {}) EXCEPT !.secret = FALSE]}]
Granted == Blob("acme", FALSE, {-9}, {}, {"R4Elite"})
SomeRemotes == {Granted, [Granted EXCEPT !.revoked = TRUE], [Granted EXCEPT !.id = "other"]}
SomeScopes == {<<"all">>, <<"acme", "site", "nobody">>}

\* Two small RSA keys, texts signed by them and texts that are not, with all short
\* sequences of lines.  The signatures are each digest, padded as the bytes 1, 7
\* and 0, raised to the private exponents 2753 and 157.
Large == [modulus |-> 3233, exponent |-> 17]
Small == [modulus |-> 2773, exponent |-> 17]
SomeKeyRings == {<<Large>>, <<Large, Small>>, <<Small, Large>>}
SomeDigestOf(lines) == <<Len(lines) + 1>>
SignedByLarge == <<2720, 3124, 746, 2241>>
SignedBySmall == <<1344, 1404, 1065, 2084>>
SomeLines ==
  [key : {"id"}, value : {"acme"}] \cup [key : {"kind"}, value : {"id", "v4"}]
    \cup [key : {"secret"}, value : {"blank", "x"}] \cup [key : {"issued"}, value : {"date", "soon"}]
LinesUpToThree == UNION {[1..n -> SomeLines] : n \in 0..3}
SomeLicenses ==
  {[segments |-> n, base64 |-> b, lines |-> ls, signature |-> s] :
     n \in {1, 3}, b \in BOOLEAN, ls \in {<<>>, <<[key |-> "id", value |-> "acme"]>>}, s \in {0, 7, 3000}}
  \cup UNION {{[segments |-> 3, base64 |-> TRUE, lines |-> ls, signature |-> s] :
                 s \in {SignedByLarge[Len(ls) + 1], SignedBySmall[Len(ls) + 1]}} : ls \in LinesUpToThree}

Symmetry == Permutations(Threads) \cup Permutations(Blobs)

-----------------------------------------------------------------------------
\* The types of the five models' states.
ServerSideTypeOK ==
  /\ part \in Parts
  /\ part = "folder" => TypeOK
  /\ part = "requests" => Requested!TypeOK
  /\ part = "license cache" => Cached!TypeOK
  /\ part = "licenses" => Managed!TypeOK
  /\ part = "license text" => Text!TypeOK

\* As long as nobody deletes anything an entry that was seen can be read, whoever
\* replaces it meanwhile, and files are left in the staging folder only by writes
\* that failed or were cut off (disk_cache.rs:165-200).
FolderIsSound == part = "folder" => SeenCanBeRead /\ LeftoversAreExplained

\* Whoever asks for an url is answered with what came from there, now, before or for
\* another request; failures are not kept, and with what is needed in the cache
\* nothing fails (lib.rs:189-247).
AnswersAreTrue ==
  /\ [](part = "requests" => Requested!ServedIsWhatWasSaid /\ Requested!OnlyResultsAreCached)
  /\ Requested!FilledNeedsNoUpstream

\* What a thread puts undisturbed is in memory and on the disk, and threads of one
\* process never see each other's half-written files (cache.rs:70-125, 180-205).
LicensesAreKept ==
  /\ [](part = "license cache" => Cached!UndisturbedIsKept /\ Cached!MemoryHasFile)
  /\ Cached!CutIsExplained

\* Threads that add licenses of one id share one, a placeholder is answered for by a
\* license of its own id only, a verdict holds until the time it names, and revoked
\* licenses permit nothing (mod.rs:90-170, license_pair.rs:38-70, compute.rs:110-271).
VerdictsHold ==
  /\ [](part = "licenses" => Managed!SameLicenseForAll /\ Managed!RemoteIsItsOwn /\ Managed!HoldsUntilExpires)
  /\ Managed!RevokedPermitsNothing

\* The lines of a license are read when a trusted key opens its signature and in no
\* other case, every round of the exponentiation being exact, and a license that is
\* accepted has what it needs (parsing.rs:43-60, 208-291).
OnlySignedAreRead ==
  part = "license text" => Text!OnlySignedAreRead /\ Text!PowmIsExact /\ Text!AcceptedAreComplete

CachedIsServed == Requested!CachedIsServed
=============================================================================
