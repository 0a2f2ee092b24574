\* Every mode, scale, width and height of up to 6 for images of up to 6 by 6; crops,
\* turns, maximums and zooms for images of up to 4 by 4; eleven lists of steps;
\* every pair of a key and a value, and every two of those that interfere; texts
\* of up to 5 characters, and numbers of up to 9 digits.
SPECIFICATION RiapiSpec
CONSTANTS
  Parts = {"layout", "steps", "parser", "color"}
  MaxSize = 1000
  Side = 6
  SmallSide = 4
  Asked <- AllAsked
  Queries <- MixedQueries
  Texts <- AllTexts
INVARIANTS   NothingIsDistorted InstructionsAreMeant ColorsAreMeant
CHECK_DEADLOCK FALSE
