-------------------------------- MODULE MCRiapi --------------------------------
(***************************************************************************)
(* Instances for TLC of the commands of a query string: the layouts of     *)
(* instructions and images, lists of steps nobody wrote, the parsing of    *)
(* instructions, and of colors.  They share no state; a behaviour looks at *)
(* one of them, chosen by `part`, while the others rest.                   *)
(***************************************************************************)
EXTENDS Ir4Instructions

CONSTANTS
  Parts,            \* what to look at
  Side, SmallSide,  \* the largest sides of images
  MaxSize, Asked,   \* of RiapiLayout
  Texts             \* of ColorText

VARIABLES
  part,
  original, plan, lay, rest, skipping, verdict,
  instructions, source, window, nodes,           \* of RiapiLayout
  text, result                                   \* of ColorText

stepsVars   == <<original, plan, lay, rest, skipping, verdict>>
nodesVars   == <<instructions, source, window, nodes>>
colorVars   == <<text, result>>
riapiVars   == <<part, vars, stepsVars, nodesVars, colorVars>>

Layout == INSTANCE RiapiLayout WITH i <- instructions
Color  == INSTANCE ColorText

ASSUME RiapiAssumption ==
  /\ Parts \subseteq {"layout", "steps", "parser", "color"}
  /\ Layout!SizingAssumption /\ Layout!AskedAssumption /\ Color!TextsAssumption /\ QueriesAssumption
  /\ Side \in Nat /\ Side < MaxSize

-----------------------------------------------------------------------------
\* What layouts are asked of images.
Square(side) == [w : 1..side, h : 1..side]
Plain == [w |-> {}, h |-> {}, maxwidth |-> {}, maxheight |-> {}, mode |-> {}, scale |-> {}, zoom |-> {},
          crop |-> {}, xunits |-> {}, yunits |-> {}, anchor |-> {}, srotate |-> {}, rotate |-> {},
          sflip |-> {}, flip |-> {}, sharpen |-> FALSE, filters |-> {}]
Maybe(S) == {{}} \cup {{x} : x \in S}
ModeChoices == {{"max"}, {"pad"}, {"crop"}, {"stretch"}}
Scalings == {{"down"}, {"up"}, {"both"}, {"canvas"}}

\* Every mode and scale with every width and height.
Sizings == {[Plain EXCEPT !.w = w, !.h = h, !.mode = m, !.scale = s] :
              w \in Maybe(1..Side), h \in Maybe(1..Side), m \in ModeChoices, s \in Scalings}
\* Maximums, absent or negative sizes, and zooms.
Legacy == {[Plain EXCEPT !.w = w, !.h = h, !.maxwidth = mw, !.maxheight = mh, !.zoom = z, !.scale = s, !.mode = {"crop"}] :
              w \in Maybe({-1, 0, 3}), h \in Maybe({2}), mw \in Maybe({2, 4}), mh \in Maybe({1, 3}),
              z \in Maybe({<<1, 2>>, <<3, 1>>, <<-1, 1>>, <<0, 0>>}), s \in {{}, {"both"}}}
\* Crops in and out of the image, and turns.
Cropped == {[Plain EXCEPT !.crop = {<<x1, y1, x2, y2>>}, !.xunits = u, !.yunits = u, !.anchor = {a},
                        !.w = w, !.h = w, !.mode = m, !.srotate = r, !.rotate = r, !.filters = {"sepia", "contrast"}, !.sharpen = TRUE,
                        !.sflip = {<<TRUE, FALSE>>}, !.flip = {<<TRUE, TRUE>>}] :
              x1 \in {-2, 0, 1}, y1 \in {-1, 1, 5}, x2 \in {-1, 0, 3}, y2 \in {0, 2}, u \in Maybe({0, 4}),
              a \in {<<"near", "far">>, <<"center", "near">>}, w \in Maybe({3}), m \in {{"pad"}, {"crop"}}, r \in Maybe({90, 180})}
AllAsked == [instructions : Sizings, image : Square(Side)]
              \cup [instructions : Cropped \cup Legacy, image : Square(SmallSide)]
OneAsked == {[instructions |-> Plain, image |-> [w |-> 1, h |-> 1]]}

\* The strategies of imageflow_riapi/src/sizing_tests.rs and lists of steps nobody wrote.
Do(name) == Layout!Step(name)
Strategies == {
  <<Layout!SkipUnless("either_greater"), Do("scale_to_inner")>>,
  <<Layout!SkipUnless("both_greater"), Do("scale_to_outer")>>,
  <<Layout!SkipUnless("both_less"), Do("scale_to_inner")>>,
  <<Layout!SkipUnless("either_less"), Do("scale_to_outer")>>,
  <<Layout!SkipIf("both_less"), Do("scale_to_inner"), Do("pad"), Do("begin"), Do("pad_aspect")>>,
  <<Layout!SkipIf("either_less"), Do("fill_crop"), Do("begin"), Layout!SkipUnless("either_less"), Do("crop_aspect")>>,
  <<Layout!SkipIf("either_less"), Do("fill_crop"), Do("begin"), Layout!SkipUnless("larger_1d_smaller_1d"), Do("crop_intersection")>>}
OddPlans == {
  <<Layout!Along("x", "scale_proportional"), Layout!Along("y", "crop"), Do("begin"), Layout!Along("y", "pad")>>,
  <<Layout!Along("x", "distort"), Layout!Along("y", "virtual_canvas")>>,
  <<Do("pad_aspect"), Do("scale_to_inner"), Layout!StepTo("distort", Layout!Exact("image"))>>,
  <<Do("partial_crop_aspect"), Layout!StepTo("virtual_canvas", [kind |-> "inner", target |-> "target", ratio |-> "canvas"]), Do("scale_to_outer")>>}

\* Something that is understood, something that is not, and nothing, for every
\* key; a few unknown ones; and pairs of pairs, where keys are repeated,
\* alternatives or share a field.
Pair(k, v) == [key |-> k, value |-> v]
Singles ==
  LET understood == UNION {{Pair(t.key, v) : v \in DOMAIN Accepted(t.parser)} : t \in ToSet(Tries)}
      others == {Pair(k, v) : k \in Ir4Keys, v \in {"?", ""}} \cup {Pair("fastscale", "true"), Pair("margin", "5")}
  IN {<<p>> : p \in understood \cup others}
Entangled == {Pair("width", "5"), Pair("width", "?"), Pair("w", "7"), Pair("w", "?"), Pair("mode", "none"), Pair("mode", "carve"),
              Pair("mode", "max"), Pair("stretch", "fill"), Pair("stretch", "?"), Pair("crop", "auto"), Pair("crop", "(0,0,5,x)"),
              Pair("crop", "0,0,5,7"), Pair("format", "jpe"), Pair("format", "?"), Pair("thumbnail", "png"), Pair("bgcolor", "?"),
              Pair("bgcolor", "f00"), Pair("rotate", "100"), Pair("rotate", "-46"), Pair("a.balancewhite", "gimp"), Pair("flip", "none")}
MixedQueries == Singles \cup {<<p, q>> : p \in Entangled, q \in Entangled}
AnchorQueries == {<<Pair("anchor", v)>> : v \in DOMAIN Anchors}

\* Short texts of any characters, and long ones of a few.
AllTexts ==
  UNION {[1..n -> {"#", "+", "0", "2", "f", "g"}] : n \in 0..5}
  \cup UNION {[1..n -> {"0", "f"}] : n \in 6..9} \cup {<<"#">> \o s : s \in [1..8 -> {"2", "f"}]}
  \cup {<<"+">> \o s : s \in UNION {[1..n -> {"2", "f"}] : n \in 5..7}}
OneText == {<<>>}

-----------------------------------------------------------------------------
\* While something else is looked at, nothing is asked.
NothingAsked == instructions = <<>> /\ source = Layout!Size(1, 1) /\ window = <<>> /\ nodes = <<>>
LayoutInit ==
  CASE part = "layout" -> Layout!Init
    [] part = "steps" -> NothingAsked /\ \E o, t \in Square(Side), p \in Strategies \cup OddPlans : Layout!Start(o, t, p)
    [] OTHER -> NothingAsked /\ Layout!Start(Layout!Size(1, 1), Layout!Size(1, 1), <<>>)
ParserInit ==
  IF part = "parser" THEN Init
  ELSE asked = <<>> /\ pairs = <<>> /\ map = <<>> /\ turn = 0 /\ i = <<>> /\ warnings = {} /\ first = {} /\ encode = {}
ColorInit ==
  IF part = "color" THEN Color!Init ELSE text = <<>> /\ result = {}

RiapiInit == part \in Parts /\ LayoutInit /\ ParserInit /\ ColorInit

LayoutStep == part = "layout" /\ Layout!Next /\ UNCHANGED <<part, vars, colorVars>>
StepsStep  == part = "steps" /\ Layout!Advance /\ UNCHANGED <<part, vars, nodesVars, colorVars>>
ParserStep == part = "parser" /\ Next /\ UNCHANGED <<part, stepsVars, nodesVars, colorVars>>
ColorStep  == part = "color" /\ Color!Parse /\ UNCHANGED <<part, vars, stepsVars, nodesVars>>

RiapiNext == LayoutStep \/ StepsStep \/ ParserStep \/ ColorStep
RiapiSpec == RiapiInit /\ [][RiapiNext]_riapiVars

-----------------------------------------------------------------------------
\* The types of a layout; the nodes can be carried out one after the other, and
\* what comes out has the size of the canvas that is announced (layout.rs:259-351).
\* Whatever steps are taken, the source stays within the original and the image within
\* the canvas (layout.rs:243, 332).
LayoutsFit ==
  /\ part = "layout" => Layout!TypeOKLayout /\ Layout!NodesFit
  /\ part \in {"layout", "steps"} => Layout!StaysWithin

\* No sizes but those out of range make a layout fail, and what is asked for is what
\* comes out: sizes that are exact are met, maximums are kept, and an image is not
\* scaled against the scale (sizing.rs:264-277, parsing.rs:679-751).
LayoutsSucceedAsAsked ==
  part = "layout" => Layout!LayoutsSucceed /\ Layout!NeverLargerThanTarget /\ Layout!ExactSizes /\ Layout!ScaleIsRespected

\* The image looks like what it shows unless it is distorted (sizing.rs:12).
NothingIsDistorted ==
  /\ part = "layout" => Layout!StretchedOnlyWhenAsked
  /\ part = "steps" => Layout!ProportionsAreKept

\* No pair of a query is lost without a word, no setting gets the value of another
\* pair, what is written for the node is read as it was, and the encoder is set to
\* what the caller wrote (parsing.rs:183-386, mod.rs:60-222).
InstructionsAreMeant ==
  part = "parser" => TypeOK /\ NothingIsLost /\ SettingsAreMeant /\ InstructionsSurvive /\ EncodedAsAsked

\* Colors of three, four, six and eight digits are what they are short for, and
\* what is written is read as itself (colors.rs:26-96).
ColorsAreMeant == part = "color" => Color!ColorsAreMeant /\ Color!ColorsSurvive
=============================================================================
