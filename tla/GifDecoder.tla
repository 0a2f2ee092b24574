----------------------------- MODULE GifDecoder -----------------------------
(***************************************************************************)
(* The GIF codec, imageflow_core/src/codecs/gif: a decoder that draws one  *)
(* frame after the other on a screen, disposing of the one before, and is  *)
(* one frame ahead of what it returned; and an encoder that takes the time *)
(* of a frame from the decoder while it writes the picture.  The gif crate *)
(* is modelled by what it is called for; a frame's pixels are given once.  *)
(***************************************************************************)
EXTENDS Integers, Sequences, SequencesExt

CONSTANT Movies   \* the files to read

FrameType ==
  [left : Nat, top : Nat, w : Nat, h : Nat, dispose : {"keep", "background", "previous"},
   px : Seq(Nat) \ {<<>>}, palette : Seq(STRING), transparent : SUBSET Nat, delay : Nat,
   broken : {"no", "header", "pixels"}]
MoviesAssumption ==
  Movies \subseteq [w : Nat, h : Nat, background : Nat, palette : Seq(STRING), frames : Seq(FrameType)]

VARIABLES
  movie,    \* the file that is read
  d,        \* the decoder: where its reader is, the frames before and after, screen and disposal
  reply,    \* what the last call returned
  drawn,    \* the frames that were drawn, for the properties
  file,     \* the blocks that were written, each with the time of a frame but for the repeat
  written,  \* the frames that were written, for the properties
  broke     \* whether writing failed once

vars == <<movie, d, reply, drawn, file, written, broke>>

Frames == movie.frames
Cells == (0 .. movie.w - 1) \X (0 .. movie.h - 1)
(* subimage: rows below the screen are ignored, columns beside it are not. *)
Subimage(f) == {c \in Cells : c[1] \in f.left .. f.left + f.w - 1 /\ c[2] \in f.top .. f.top + f.h - 1}
OutOfScreen(f) == f.left + f.w > movie.w \/ f.w * f.h > movie.w * movie.h

Background == IF movie.background \in DOMAIN movie.palette THEN movie.palette[movie.background] ELSE "clear"
NoDisposal == [method |-> "keep", area |-> {}, saved |-> <<>>]
Init ==
  /\ movie \in Movies
  /\ d = [at |-> 0, unread |-> FALSE, last |-> {}, next |-> {},
          screen |-> [c \in Cells |-> Background], disposal |-> NoDisposal]
  /\ reply = "created" /\ drawn = <<>>
  /\ file = <<>> /\ written = <<>> /\ broke = FALSE

-----------------------------------------------------------------------------
(* The pixels of a frame, but the transparent ones, in its own or the      *)
(* global palette.                                                         *)
PaletteOf(f) == IF f.palette # <<>> THEN f.palette ELSE movie.palette
Index(f, c) == f.px[((c[1] - f.left + c[2] - f.top) % Len(f.px)) + 1]
Opaque(f) == {c \in Subimage(f) : Index(f, c) \notin f.transparent}
OutOfPalette(f) == \E c \in Opaque(f) : Index(f, c) \notin DOMAIN PaletteOf(f)
Over(pixels, s) == [c \in DOMAIN s |-> IF c \in DOMAIN pixels THEN pixels[c] ELSE s[c]]
Drawn(s, f) == Over([c \in Opaque(f) |-> PaletteOf(f)[Index(f, c)]], s)

(* Disposal::dispose and Disposal::new                                     *)
Disposed(s, disposal) ==
  CASE disposal.method = "background" -> Over([c \in disposal.area |-> Background], s)
    [] disposal.method = "previous"   -> Over(disposal.saved, s)
    [] OTHER -> s
DisposalOfDrawn(f, s) ==   \* variant: a frame is saved with itself on it
  [method |-> f.dispose, area |-> Subimage(f), saved |-> [c \in Subimage(f) |-> Drawn(s, f)[c]]]
DisposalOf(f, s) ==
  [method |-> f.dispose, area |-> Subimage(f),
   saved |-> IF f.dispose = "previous" THEN [c \in Subimage(f) |-> s[c]] ELSE <<>>]

Blit(e, f) ==
  LET s == Disposed(e.screen, e.disposal) IN
  [e EXCEPT !.screen = Drawn(s, f), !.disposal = DisposalOf(f, s)]

-----------------------------------------------------------------------------
(* read_next_frame_info                                                    *)
HeaderIsBroken(e) == e.at < Len(Frames) /\ Frames[e.at + 1].broken = "header"
Ahead(e) ==
  IF e.at = Len(Frames) THEN [e EXCEPT !.last = e.next, !.next = {}]
  ELSE [e EXCEPT !.last = e.next, !.at = e.at + 1, !.unread = TRUE,
                 !.next = IF HeaderIsBroken(e) THEN {} ELSE {e.at + 1}]

Ends(e, r) == d' = e /\ reply' = r
Live == reply # "panic"

(* GifDecoder::read_frame.  An assertion ends it when a frame is not on    *)
(* the screen or a pixel not in the palette.  The reader may lose the      *)
(* frame after one whose pixels it is asked for again.                     *)
ReadFrame ==
  /\ Live /\ reply # "frame"
  /\ LET begun == IF d.next = {} THEN Ahead(d) ELSE d IN
     \/ d.next = {} /\ HeaderIsBroken(d) /\ Ends(begun, "error") /\ UNCHANGED drawn
     \/ begun.next = {} /\ ~HeaderIsBroken(d) /\ Ends(begun, "no_frame") /\ UNCHANGED drawn
     \/ \E n \in begun.next :
          LET f     == Frames[n]
              given == [begun EXCEPT !.unread = FALSE]
              shown == Blit(given, f)
          IN  \/ OutOfScreen(f) /\ Ends(begun, "panic") /\ UNCHANGED drawn
              \/ /\ ~OutOfScreen(f) /\ (~begun.unread \/ f.broken = "pixels")
                 /\ \E e \in {given, [given EXCEPT !.at = IF begun.unread \/ @ = Len(Frames) THEN @ ELSE @ + 1]} : Ends(e, "error")
                 /\ UNCHANGED drawn
              \/ /\ ~OutOfScreen(f) /\ begun.unread /\ f.broken # "pixels"
                 /\ \/ PaletteOf(f) = <<>> /\ Ends(given, "error") /\ UNCHANGED drawn
                    \/ PaletteOf(f) # <<>> /\ OutOfPalette(f) /\ Ends(given, "panic") /\ UNCHANGED drawn
                    \/ /\ PaletteOf(f) # <<>> /\ ~OutOfPalette(f)
                       /\ Ends(Ahead(shown), IF HeaderIsBroken(shown) THEN "error" ELSE "frame")
                       /\ drawn' = Append(drawn, n)
  /\ UNCHANGED <<movie, file, written, broke>>

(* GifEncoder::write_frame, of the frame just read, with its time; a file  *)
(* repeats when it is made from a GIF, which is written before its first   *)
(* frame.                                                                  *)
DelayOf(e) == IF e.last = {} THEN {0} ELSE {Frames[n].delay : n \in e.last}
RepeatBlock == {}
Repeat == IF written = <<>> THEN <<RepeatBlock>> ELSE <<>>
WriteFrame ==
  /\ reply = "frame"
  /\ \/ /\ file' = file \o Repeat \o <<DelayOf(d)>>
        /\ written' = Append(written, Last(drawn))
        /\ reply' = "written" /\ UNCHANGED broke
     \/ /\ file' \in {file, file \o Repeat}
        /\ broke' = TRUE /\ reply' = "error" /\ UNCHANGED written
  /\ UNCHANGED <<movie, d, drawn>>

(* The frame goes to an encoder of another kind.                           *)
Discard == reply = "frame" /\ reply' = "written" /\ UNCHANGED <<movie, d, drawn, file, written, broke>>

Next == ReadFrame \/ WriteFrame \/ Discard
Spec == Init /\ [][Next]_vars

-----------------------------------------------------------------------------
TypeOK ==
  /\ reply \in {"created", "frame", "no_frame", "error", "panic", "written"}
  /\ d.last \cup d.next \subseteq DOMAIN Frames /\ d.at \in 0 .. Len(Frames)
  /\ DOMAIN d.screen = Cells

(* The screen is what a GIF's frames say together: each is drawn over what *)
(* was there, and then left, cleared to the background, or taken back as   *)
(* if it had never been, although only its own area is saved               *)
(* (screen.rs:54-73, disposal.rs:27-53).                                   *)
Composed ==
  LET before[k \in 1 .. Len(drawn) + 1] ==
        IF k = 1 THEN [c \in Cells |-> Background]
        ELSE LET f == Frames[drawn[k - 1]] IN
             CASE f.dispose = "previous" -> before[k - 1]
               [] f.dispose = "background" -> Over([c \in Subimage(f) |-> Background], Drawn(before[k - 1], f))
               [] OTHER -> Drawn(before[k - 1], f)
  IN  IF drawn = <<>> THEN before[1] ELSE Drawn(before[Len(drawn)], Frames[Last(drawn)])
ScreenIsComposed == reply # "panic" => d.screen = Composed

(* Frames come in their order, none twice, whatever failed before          *)
(* (mod.rs:114-146).                                                       *)
FramesComeInOrder == \A k \in 1 .. Len(drawn) - 1 : drawn[k] < drawn[k + 1]

(* A written frame has its own time although the decoder has the next      *)
(* already, and the file repeats from its first frame on (mod.rs:173-218). *)
Repeats == Len(file) - Len(written)
TimesAreKept ==
  /\ \A k \in 1 .. Repeats : file[k] = RepeatBlock
  /\ \A k \in DOMAIN written : Repeats + k > 0 /\ file[Repeats + k] = {Frames[written[k]].delay}
  /\ written # <<>> /\ ~broke => Repeats = 1
=============================================================================
