--------------------------- MODULE Ir4Instructions ---------------------------
(***************************************************************************)
(* A query string becomes Instructions and warnings, and the Instructions  *)
(* the query string of a command node, which is parsed once more when the  *)
(* size of the image is known (imageflow_riapi/src/ir4/parsing.rs, and     *)
(* Ir4Translate and Ir4Expand of mod.rs), and then chooses the encoder and *)
(* its settings (get_encoder_node, and ClassicEncoder of codecs/mod.rs).   *)
(* Keys and values are trimmed and in lower case; there is one word or     *)
(* number for each kind that is treated differently.                       *)
(***************************************************************************)
EXTENDS Integers, Sequences, SequencesExt

CONSTANT Queries   \* the query strings that are looked at

QueriesAssumption == Queries \subseteq Seq([key : STRING, value : STRING])

VARIABLES
  asked,      \* the query string of the caller
  pairs,      \* what is left of the one that is parsed
  map,        \* keys and values not dealt with yet
  turn,       \* how many fields have been tried; 0 while the map is filled
  i,          \* the instructions, options
  warnings,   \* of the current parse
  first,      \* the instructions and warnings of the first parse, once it has ended
  encode      \* whether the frame is opaque and what the encoder is set to, once it is chosen

vars == <<asked, pairs, map, turn, i, warnings, first, encode>>

-----------------------------------------------------------------------------
Ints == {"5", "7"}
Doubles == Ints \cup {"0.5"}
Yes == {"true", "1", "yes", "on"}
Bools == [v \in Yes \cup {"false", "0", "no", "off"} |-> v \in Yes]
Rotations ==
  [v \in {"0", "90", "180", "270", "-90", "360", "100", "-46"} |->
     CASE v = "0" -> 0 [] v = "90" -> 90 [] v = "180" -> 180 [] v = "270" -> 270
       [] v = "-90" -> -90 [] v = "360" -> 360 [] v = "100" -> 100 [] v = "-46" -> -46]
Same(S) == [v \in S |-> v]
Jpegs == {"jpg", "jpe", "jif", "jfif", "jfi", "exif", "jpeg"}
Formats == [v \in Jpegs \cup {"png", "gif"} |-> IF v \in Jpegs THEN "jpeg" ELSE v]
Scales ==
  [down |-> "downscaleonly", up |-> "upscaleonly", canvas |-> "upscalecanvas", downscaleonly |-> "downscaleonly",
   upscaleonly |-> "upscaleonly", upscalecanvas |-> "upscalecanvas", both |-> "both"]
Flips ==
  [none |-> <<FALSE, FALSE>>, h |-> <<TRUE, FALSE>>, x |-> <<TRUE, FALSE>>, v |-> <<FALSE, TRUE>>, y |-> <<FALSE, TRUE>>,
   xy |-> <<TRUE, TRUE>>, both |-> <<TRUE, TRUE>>]
Anchors ==   \* across, then down
  [topleft |-> <<"near", "near">>, topcenter |-> <<"center", "near">>, topright |-> <<"far", "near">>,
   middleleft |-> <<"near", "center">>, middlecenter |-> <<"center", "center">>, middleright |-> <<"far", "center">>,
   bottomleft |-> <<"near", "far">>, bottomcenter |-> <<"center", "far">>, bottomright |-> <<"far", "far">>]

(* To the nearest quarter turn, halves away from zero, below a full one.   *)
Quarter(d) == LET q == IF d >= 0 THEN (2 * d + 90) \div 180 ELSE -((90 - 2 * d) \div 180) IN 90 * (q % 4)

Modes == [carve |-> "stretch", none |-> "none", max |-> "max", pad |-> "pad", crop |-> "crop", stretch |-> "stretch"]
StrictCrops == {"0,0,5,7", "0,0,5,0"}
Crops == [v \in StrictCrops \cup {"(0,0,5,x)"} |-> IF v \in StrictCrops THEN v ELSE "0,0,5,0"]   \* what is no number is 0
Colors == [v \in {"red", "f00", "ff0000", "ff0000ff"} |-> "red"]
Grays == Same({"ntsc", "true", "y", "ry", "flat", "bt709"})
Balances == [true |-> "area", area |-> "area", simple |-> "simple", gimp |-> "gimp"]
Colorspaces == Same({"srgb", "linear", "gamma"})
Subsamplings == Same({"411", "420", "422", "444"})

(* What each parser understands, and by what.                              *)
Accepted(parser) ==
  CASE parser = "i32" -> Same(Ints)
    [] parser = "f64" -> Same(Doubles)
    [] parser = "bool" -> Bools
    [] parser = "rotate" -> [v \in DOMAIN Rotations |-> Quarter(Rotations[v])]
    [] parser = "mode" -> Modes
    [] parser = "fill" -> [fill |-> "stretch"]
    [] parser = "auto" -> [auto |-> "crop"]
    [] parser = "scale" -> Scales
    [] parser = "format" -> Formats
    [] parser = "flip" -> Flips
    [] parser = "crop_strict" -> Same(StrictCrops)
    [] parser = "crop" -> Crops
    [] parser = "color" -> Colors
    [] parser = "anchor" -> Anchors
    [] parser = "grayscale" -> Grays
    [] parser = "balance" -> Balances
    [] parser = "colorspace" -> Colorspaces
    [] parser = "subsampling" -> Subsamplings

Inexact(parser, v) == parser = "rotate" /\ Rotations[v] > 0 /\ Rotations[v] % 90 # 0
Discouraged(parser, v) == (parser = "mode" /\ v = "carve") \/ (parser = "balance" /\ v \in {"simple", "gimp"})

(* A field is tried under one key after the other; a later one is read all *)
(* the same, but for what is tried lazily.  Keys that parse_url never lets *)
(* through (sourceFlip, fastscale and trim) are left out.                  *)
Try(field, key, parser) == [field |-> field, key |-> key, parser |-> parser, lazy |-> FALSE]
Else(field, key, parser) == [field |-> field, key |-> key, parser |-> parser, lazy |-> TRUE]
Tries == <<
  Try("f_sharpen", "f.sharpen", "f64"), Try("w", "width", "i32"), Try("w", "w", "i32"),
  Try("h", "height", "i32"), Try("h", "h", "i32"), Try("legacy_max_height", "maxheight", "i32"),
  Try("legacy_max_width", "maxwidth", "i32"), Try("flip", "flip", "flip"), Try("sflip", "sflip", "flip"),
  Try("mode", "mode", "mode"), Try("mode", "stretch", "fill"), Try("mode", "crop", "auto"),
  Try("scale", "scale", "scale"), Try("format", "format", "format"), Try("format", "thumbnail", "format"),
  Try("srotate", "srotate", "rotate"), Try("rotate", "rotate", "rotate"), Try("autorotate", "autorotate", "bool"),
  Try("ignoreicc", "ignoreicc", "bool"), Try("crop", "crop", "crop_strict"), Else("crop", "crop", "crop"),
  Try("cropxunits", "cropxunits", "f64"), Try("cropyunits", "cropyunits", "f64"), Try("quality", "quality", "i32"),
  Try("zoom", "zoom", "f64"), Try("bgcolor_srgb", "bgcolor", "color"), Else("bgcolor_srgb", "bgcolor", "color"),
  Try("jpeg_subsampling", "subsampling", "subsampling"), Try("anchor", "anchor", "anchor"),
  Try("min_precise_scaling_ratio", "decoder.min_precise_scaling_ratio", "f64"), Try("s_grayscale", "s.grayscale", "grayscale"),
  Try("s_contrast", "s.contrast", "f64"), Try("s_alpha", "s.alpha", "f64"), Try("s_saturation", "s.saturation", "f64"),
  Try("s_brightness", "s.brightness", "f64"), Try("s_sepia", "s.sepia", "bool"), Try("a_balance_white", "a.balancewhite", "balance"),
  Try("down_colorspace", "down.colorspace", "colorspace"), Try("jpeg_progressive", "jpeg.progressive", "bool")>>
Fields == {Tries[n].field : n \in DOMAIN Tries}
NoInstructions == [f \in Fields |-> {}]

(* Keys of ImageResizer that are known but have no field, and the others.  *)
Ir4Keys == {Tries[n].key : n \in DOMAIN Tries} \cup {"frame", "page", "watermark", "dither", "margin"}

-----------------------------------------------------------------------------
(* to_string: every field that is set under its key, in the keys' order,   *)
(* which does not matter to the parser.  The anchor's parts are written in *)
(* the order they are in: what is across is written as up or down.         *)
AnchorNames ==
  [near |-> [near |-> "topleft", center |-> "topcenter", far |-> "topright"],
   center |-> [near |-> "middleleft", center |-> "middlecenter", far |-> "middleright"],
   far |-> [near |-> "bottomleft", center |-> "bottomcenter", far |-> "bottomright"]]
AnchorString(a) == AnchorNames[a[1]][a[2]]
FlipString(f) == CASE f = <<TRUE, TRUE>> -> {"xy"} [] f = <<TRUE, FALSE>> -> {"x"} [] f = <<FALSE, TRUE>> -> {"y"} [] OTHER -> {}
Digits == [d \in {0, 90, 180, 270} |-> CASE d = 0 -> "0" [] d = 90 -> "90" [] d = 180 -> "180" [] d = 270 -> "270"]
FieldKeys == [w |-> "w", h |-> "h", format |-> "format", mode |-> "mode"]   \* where several keys are read
LongestKeyOf(field) ==   \* variant: the longest key that is read
  (CHOOSE t \in ToSet(Tries) : t.field = field /\ \A u \in ToSet(Tries) : u.field = field => Len(u.key) <= Len(t.key)).key
KeyOf(field) == IF field \in DOMAIN FieldKeys THEN FieldKeys[field]
                ELSE (CHOOSE t \in ToSet(Tries) : t.field = field).key
Strings(field, v) ==
  CASE field \in {"flip", "sflip"} -> FlipString(v)
    [] field = "anchor" -> {AnchorString(v)}
    [] field = "bgcolor_srgb" -> {"ff0000ff"}
    [] field \in {"rotate", "srotate"} -> {Digits[v]}
    [] field \in {"autorotate", "ignoreicc", "s_sepia", "jpeg_progressive"} -> {IF v THEN "true" ELSE "false"}
    [] OTHER -> {v}
ToPairs(j) == SetToSeq(UNION {UNION {{[key |-> KeyOf(f), value |-> s] : s \in Strings(f, v)} : v \in j[f]} : f \in Fields})

-----------------------------------------------------------------------------
Warning(kind, p) == [kind |-> kind, key |-> p.key, value |-> p.value]
Begin(q) == pairs = q /\ map = <<>> /\ turn = 0 /\ i = NoInstructions /\ warnings = {}
Init == asked \in Queries /\ Begin(asked) /\ first = {} /\ encode = {}

(* The first of several values of a key counts.                            *)
TakePair ==
  /\ turn = 0 /\ pairs # <<>>
  /\ LET p == Head(pairs) IN
     IF p.key \in DOMAIN map THEN warnings' = warnings \cup {Warning("duplicate", p)} /\ UNCHANGED map
     ELSE IF p.key \notin Ir4Keys THEN warnings' = warnings \cup {Warning("not_recognized", p)} /\ UNCHANGED map
     ELSE map' = [k \in DOMAIN map \cup {p.key} |-> IF k = p.key THEN p.value ELSE map[k]] /\ UNCHANGED warnings
  /\ pairs' = Tail(pairs) /\ UNCHANGED <<asked, turn, i, first, encode>>
EndPairs ==
  /\ turn = 0 /\ pairs = <<>>
  /\ turn' = 1 /\ UNCHANGED <<asked, pairs, map, i, warnings, first, encode>>

Without(m, key) == [k \in DOMAIN m \ {key} |-> m[k]]

(* warning_parse: what is supported, or blank, is taken from the map.      *)
Parse(t, v) ==
  LET understood == v \in DOMAIN Accepted(t.parser) IN
  [value |-> IF ~understood \/ (t.parser = "mode" /\ v = "none") THEN {} ELSE {Accepted(t.parser)[v]},
   warns |-> IF understood THEN Inexact(t.parser, v) \/ Discouraged(t.parser, v) ELSE v # "" /\ t.parser \notin {"fill", "auto"},
   supported |-> v = "" \/ (understood /\ ~Inexact(t.parser, v))]
ParseField ==
  /\ turn \in DOMAIN Tries
  /\ LET t == Tries[turn]
         r == Parse(t, map[t.key]) IN
     IF t.key \notin DOMAIN map \/ (t.lazy /\ i[t.field] # {}) THEN UNCHANGED <<map, i, warnings>>
     ELSE /\ i' = IF i[t.field] = {} THEN [i EXCEPT ![t.field] = r.value] ELSE i
          /\ map' = IF r.supported THEN Without(map, t.key) ELSE map
          /\ warnings' = IF r.warns THEN warnings \cup {Warning("invalid", [key |-> t.key, value |-> map[t.key]])} ELSE warnings
  /\ turn' = turn + 1 /\ UNCHANGED <<asked, pairs, first, encode>>

(* What is left in the map is not supported.                               *)
Drain ==
  /\ turn = Len(Tries) + 1 /\ map # <<>>
  /\ warnings' = warnings \cup {Warning("not_supported", [key |-> k, value |-> map[k]]) : k \in DOMAIN map}
  /\ map' = <<>> /\ UNCHANGED <<asked, pairs, turn, i, first, encode>>
Parsed == turn = Len(Tries) + 1 /\ map = <<>>

(* Ir4Translate::translate, then Ir4Expand with the string it made.        *)
Translate ==
  /\ Parsed /\ first = {}
  /\ first' = {[i |-> i, warnings |-> warnings]}
  /\ pairs' = ToPairs(i) /\ map' = <<>> /\ turn' = 0 /\ i' = NoInstructions /\ warnings' = {}
  /\ UNCHANGED <<asked, encode>>

-----------------------------------------------------------------------------
(* get_encoder_node of the command node: the format of the source is never *)
(* known to it, so that one that is not given depends on the frame.        *)
Or(option, default) == IF option = {} THEN {default} ELSE option
FormatOf(j, opaque) == Or(j.format, IF opaque THEN "jpeg" ELSE "png")
OpaquePng(j) == IF j.bgcolor_srgb # {} THEN "png24" ELSE "png32"
EncoderPreset(j, format) ==
  CASE format = "gif" -> [codec |-> "gif"]
    [] format = "jpeg" -> [codec |-> "jpeg", quality |-> Or(j.quality, "90"), progressive |-> j.jpeg_progressive,
                           optimize |-> j.jpeg_progressive]
    [] format = "png" -> [codec |-> "png", depth |-> {OpaquePng(j)}, matte |-> j.bgcolor_srgb]

(* get_codec_id_and_hints; a GIF has an encoder of its own, without any.   *)
Hints(preset) ==
  CASE preset.codec = "gif" -> [codec |-> "gif"]
    [] preset.codec = "jpeg" ->
         [codec |-> "jpeg", quality |-> Or(preset.quality, "90"), alpha |-> {},
          progressive |-> Or(preset.progressive, FALSE), optimize |-> Or(preset.optimize, FALSE)]
    [] preset.codec = "png" ->
         [codec |-> "png", quality |-> {}, alpha |-> {preset.depth # {"png24"}}, progressive |-> {TRUE}, optimize |-> {TRUE}]
ChooseEncoder ==
  /\ Parsed /\ first # {} /\ encode = {}
  /\ \E opaque \in BOOLEAN : \E format \in FormatOf(i, opaque) :
       encode' = {[opaque |-> opaque, hints |-> Hints(EncoderPreset(i, format))]}
  /\ UNCHANGED <<asked, pairs, map, turn, i, warnings, first>>

Next == TakePair \/ EndPairs \/ ParseField \/ Drain \/ Translate \/ ChooseEncoder
Spec == Init /\ [][Next]_vars

-----------------------------------------------------------------------------
TypeOK ==
  /\ DOMAIN map \subseteq Ir4Keys /\ turn \in 0..(Len(Tries) + 1)
  /\ \A f \in {"rotate", "srotate"} : i[f] \subseteq {0, 90, 180, 270}

(* What the caller's instructions and warnings are, once they are parsed.  *)
Result == IF first # {} THEN first ELSE IF Parsed THEN {[i |-> i, warnings |-> warnings]} ELSE {}
Feeds(p, f) == \E t \in ToSet(Tries) : t.key = p.key /\ t.field = f
Silent == {"none", ""}

(* No pair is lost without a word: its field is set, by it or what goes    *)
(* before it, or a warning names it (delete_supported,                     *)
(* parsing.rs:381-386).                                                    *)
NothingIsLost ==
  \A r \in Result : \A p \in ToSet(asked) :
    \/ p.value \in Silent
    \/ \E f \in Fields : Feeds(p, f) /\ r.i[f] # {}
    \/ \E w \in r.warnings : w.key = p.key /\ w.value = p.value

(* A field that is set has the meaning of a pair that was given, of the    *)
(* first with its key and of the preferred key: none gets the value of     *)
(* another key or of a duplicate (parsing.rs:183-186).                     *)
Places(t) == {n \in DOMAIN asked : asked[n].key = t.key}
Means(t, v) ==
  /\ Places(t) # {}
  /\ \A n \in Places(t) :
       (\A m \in Places(t) : n <= m) => asked[n].value \in DOMAIN Accepted(t.parser) /\ Accepted(t.parser)[asked[n].value] = v
SettingsAreMeant ==
  \A r \in Result : \A f \in Fields : \A v \in r.i[f] :
    \E t \in ToSet(Tries) : t.field = f /\ Means(t, v)

(* The command node does what the caller asked for: what is parsed again   *)
(* is what was parsed, but for turning on none of the flips, and nothing   *)
(* but a discouraged value is warned of twice.                             *)
Second == Parsed /\ first # {}
FlipsOf(option) == IF option = {<<FALSE, FALSE>>} THEN {} ELSE option
InstructionsSurvive ==
  Second => \A r \in first :
    /\ \A f \in Fields \ {"anchor"} : IF f \in {"flip", "sflip"} THEN i[f] = FlipsOf(r.i[f]) ELSE i[f] = r.i[f]
    /\ warnings \subseteq {w \in r.warnings : w.key = "a.balancewhite"}

(* The file is of the format, and a JPEG of the quality, of the query      *)
(* string the caller wrote, although two parsers and a writer are between  *)
(* them; and transparency is only lost to a JPEG or where a background is  *)
(* given, never for want of a format (mod.rs:189-222).                     *)
EncodedAsAsked ==
  \A e \in encode : \A r \in first :
    /\ r.i.format \subseteq {e.hints.codec}
    /\ e.hints.codec = "jpeg" => e.hints.quality = Or(r.i.quality, "90")
    /\ r.i.format = {} /\ ~e.opaque => e.hints.codec = "png"
    /\ e.hints.codec = "png" => e.hints.alpha = {r.i.bgcolor_srgb = {}}

(* "delete whitespace from instructions" (mod.rs:88) is all that is to     *)
(* happen to them on their way.                                            *)
AnchorSurvives == Second => \A r \in first : i.anchor = r.i.anchor
=============================================================================
