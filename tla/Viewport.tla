------------------------------ MODULE Viewport ------------------------------
(* Which rows of a list a screen paints. Rows are numbered from 0; a window   *)
(* is the half-open range [from, to), and the two hints say how many rows lie *)
(* above and below it. windowRange (screens/menu.go) and components.List.View *)
(* do the same arithmetic.                                                    *)
EXTENDS Integers

Smaller(a, b) == IF a < b THEN a ELSE b
Larger(a, b) == IF a > b THEN a ELSE b

\* The first row of a window of `budget` rows around the cursor.
Anchor(cursor, n, budget) ==
  Smaller(Larger(cursor - budget \div 2, 0), n - budget)

\* A budget that is not positive means the height is unknown: paint every row.
\* A hint takes the place of the row next to it.
Window(cursor, n, budget) ==
  IF budget <= 0 \/ n <= budget
  THEN [from |-> 0, to |-> n, above |-> 0, below |-> 0]
  ELSE LET first == Anchor(cursor, n, budget)
           last  == first + budget
           from  == IF first > 0 THEN first + 1 ELSE first
           to    == IF last < n THEN last - 1 ELSE last
       IN  [from  |-> Smaller(from, cursor),
            to    |-> Larger(to, cursor + 1),
            above |-> IF first > 0 THEN from ELSE 0,
            below |-> IF last < n THEN n - to ELSE 0]

\* listRows: the height of the window less the lines around the list, never
\* fewer than three once the height is known.
ListRows(height, chrome) ==
  IF height = 0 THEN 0 ELSE Larger(height - chrome, 3)

\* What must not fall outside the painted lines: the row the keys act on. The
\* hints count the rows that are really hidden, and rows and hints fit.
ShowsCursor(cursor, n, budget) ==
  LET w == Window(cursor, n, budget)
  IN  /\ 0 <= w.from /\ w.from <= cursor /\ cursor < w.to /\ w.to <= n
      /\ w.above = w.from /\ w.below = n - w.to
      /\ budget > 0 =>
           (w.to - w.from) + (IF w.above > 0 THEN 1 ELSE 0)
                           + (IF w.below > 0 THEN 1 ELSE 0) <= budget
=============================================================================
