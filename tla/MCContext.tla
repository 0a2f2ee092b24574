------------------------------ MODULE MCContext -------------------------------
(***************************************************************************)
(* Instances for TLC of a context and what it is made of in                *)
(* imageflow_core and imageflow_types: its io, codecs and error as the     *)
(* client of the C functions sees them, the set that lends its codecs, the *)
(* colour transforms it shares with other contexts, its GIF codec, and the *)
(* text of its error.                                                      *)
(*                                                                         *)
(* The models share no state; a behaviour looks at one of them, chosen by  *)
(* `part`, while the others rest.                                          *)
(***************************************************************************)
EXTENDS JobContext, TLC

CONSTANTS
  Parts,                                             \* what to look at
  Address, MaxLoans,                                 \* of AddRemoveSet
  Threads, Profiles, OfPng, Formats, Limit,          \* of TransformCache
  Movies,                                            \* of GifDecoder
  Bytes, Capacities, Texts, Endings, Null, Space, Old \* of ErrorText

VARIABLES
  part,
  slots,                                                   \* of AddRemoveSet
  entries, pc, frame, using,                               \* of TransformCache
  movie, decoder, reply, drawn, file, delays, broke,       \* of GifDecoder
  buffer, text, suffix, pieces, pos, result, written       \* of ErrorText

transformVars == <<entries, pc, frame, using>>
gifVars       == <<movie, decoder, reply, drawn, file, delays, broke>>
textVars      == <<buffer, text, suffix, pieces, pos, result, written>>
contextVars   == <<part, vars, slots, transformVars, gifVars, textVars>>

Set        == INSTANCE AddRemoveSet
Transforms == INSTANCE TransformCache
Gif        == INSTANCE GifDecoder WITH d <- decoder, written <- delays
Text       == INSTANCE ErrorText

ASSUME PartsAssumption ==
  /\ Parts \subseteq {"context", "set", "transforms", "gif", "text"}
  /\ Set!SetAssumption /\ Transforms!CacheAssumption
  /\ Gif!MoviesAssumption /\ Text!TextAssumption

NoMovie == [w |-> 1, h |-> 1, background |-> 0, palette |-> <<>>, frames |-> <<>>]
ContextInit ==
  /\ part \in Parts
  /\ Init /\ Set!Init /\ Transforms!Init
  /\ Text!Init /\ (part # "text" => buffer = <<>> /\ pieces = <<>> /\ suffix = <<>>)
  /\ Gif!Init /\ (part # "gif" => movie = NoMovie)

ContextNext ==
  \/ part = "context"    /\ Next            /\ UNCHANGED <<part, slots, transformVars, gifVars, textVars>>
  \/ part = "set"        /\ Set!Next        /\ UNCHANGED <<part, vars, transformVars, gifVars, textVars>>
  \/ part = "transforms" /\ Transforms!Next /\ UNCHANGED <<part, vars, slots, gifVars, textVars>>
  \/ part = "gif"        /\ Gif!Next        /\ UNCHANGED <<part, vars, slots, transformVars, textVars>>
  \/ part = "text"       /\ Text!Next       /\ UNCHANGED <<part, vars, slots, transformVars, gifVars>>

ContextSpec == ContextInit /\ [][ContextNext]_contextVars

-----------------------------------------------------------------------------
\* Instances: a job of each kind between two io, and the io lists of build
\* messages that end well, with a failure in the middle, or with a panic; all
\* texts of up to three pieces of up to three bytes, nulls among them.
SomeInputs == {"good", "malformed", "unknown", "short", "no_memory"}

Job(from, to, encoder, graph) == [from |-> from, to |-> to, encoder |-> encoder, graph |-> graph]
SomeJobs ==
  {Job(0, 1, encoder, "valid") : encoder \in {"works", "fails", "not_created"}}
  \cup {Job(1, 1, "works", "valid"), Job(0, 0, "works", "valid"), Job(0, 1, "works", "invalid"), Job(0, 1, "works", "panics")}

Object(id, input) == [id |-> id, io |-> input]
SomeIoLists ==
  {<<Object(0, "good"), Object(1, "output")>>, <<Object(1, "output"), Object(0, "malformed")>>,
   <<Object(1, "output"), Object(1, "placeholder")>>, <<Object(0, "good"), Object(1, "not_base64")>>}

PiecesOf == {<<"a">>, <<"a", "b">>, <<"a", Null, "c">>}
SomeTexts == {<<>>} \cup {<<p>> : p \in PiecesOf} \cup {<<p, q>> : p \in PiecesOf, q \in PiecesOf}
             \cup {<<p, q, r>> : p \in PiecesOf, q \in PiecesOf, r \in PiecesOf}
SomeBytes == {"a", "b", "c", "~", "!", Null, Space}
SomeSuffixes == {<<>>, <<"~">>, <<"~", "!", "~">>}

\* GIFs of up to three frames of every disposal on a screen of two by two, with
\* frames that cover it or a part of it, that are damaged, or beside it.
Frame(left, top, w, h, dispose) ==
  [left |-> left, top |-> top, w |-> w, h |-> h, dispose |-> dispose, px |-> <<1, 2>>, palette |-> <<>>,
   transparent |-> {}, delay |-> 10 * left + top + Len(dispose), broken |-> "no"]
Whole(dispose) == Frame(0, 0, 2, 2, dispose)
SomeFrames ==
  {Whole(m) : m \in {"keep", "background", "previous"}}
  \cup {[Frame(1, 0, 1, 2, m) EXCEPT !.transparent = {2}, !.palette = <<"green", "blue">>] : m \in {"background", "previous"}}
  \cup {[Frame(0, 1, 2, 1, m) EXCEPT !.palette = <<"white", "white">>] : m \in {"keep", "previous"}}
  \cup {[Whole("keep") EXCEPT !.broken = b] : b \in {"header", "pixels"}}
  \cup {Frame(1, 1, 2, 1, "keep"), Frame(0, 1, 1, 2, "previous"), [Whole("previous") EXCEPT !.px = <<1, 3>>]}
SomeMovies ==
  {NoMovie} \cup [w : {2}, h : {2}, background : {1, 9}, palette : {<<"red", "black">>, <<>>},
                  frames : UNION {[1 .. n -> SomeFrames] : n \in 1 .. 3}]

Symmetry == Permutations(Threads) \cup Permutations(Profiles \ OfPng)

-----------------------------------------------------------------------------
\* The types of the models' states.
ContextTypeOK == part \in Parts /\ TypeOK /\ Set!TypeOK /\ Transforms!TypeOK /\ Gif!TypeOK

\* Whatever calls and failures come: an io_id keeps the codec it got first, a codec
\* is never lost or replaced, an error that is shown stays the same, and the process
\* ends by misuse only (context.rs:176-193, codecs/mod.rs:360-383, errors.rs:350-378).
CallsAreConsistent == IdsKeepTheirCodec /\ CodecsProgress /\ ErrorsStick /\ OnlyMisuseAborts

\* Pixels are changed by the transform of their own profile and format, whichever
\* thread made it; what a thread saw in the map is there when it uses it; and the
\* cache passes its limit by the threads already behind the check at most
\* (codecs/mod.rs:481-524).
OwnTransform == Transforms!OwnTransform /\ Transforms!SeenIsThere /\ Transforms!OvershootIsBounded

\* The screen of a GIF shows what its frames say together, in their order, whatever
\* was damaged before, and each is written with its own time (gif/mod.rs:108-218,
\* screen.rs:54-73, disposal.rs:27-53).
GifIsShown == part = "gif" => Gif!ScreenIsComposed /\ Gif!FramesComeInOrder /\ Gif!TimesAreKept

\* A client of C reads the beginning of the error and nothing else, all of it if
\* that is told or if it fits, and as much as is told (errors.rs:871-952).
ErrorIsShown == Text!ToldIsShown /\ Text!ShownIsTheError /\ Text!CutOnlyWhenNeeded

\* What is lent exists, a search that finds nothing means there is nothing, what
\* nobody changes is found while other values are changed, and a pointer to a removed
\* value never means another (collections.rs:86-170).
LoansAreSound ==
  /\ [](Set!Distinct /\ Set!LentExists /\ Set!AbsenceIsCertain /\ Set!SharedIsFound)
  /\ Set!RemovedStaysRemoved
=============================================================================
