------------------------------ MODULE ConfigCheck ------------------------------
(***************************************************************************)
(* validate_config (tilecloud_chain/__init__.py): the scale of the         *)
(* resolutions of each grid, computed by _resolution_scale and             *)
(* _primefactors or given by resolution_scale and then checked, and what   *)
(* is done with the errors.                                                *)
(*                                                                         *)
(* A resolution is a reduced fraction <<n, d>>: what the text of the       *)
(* configuration says.  The check of a given scale is done with floats of  *)
(* Precision bits (53 in the program).                                     *)
(***************************************************************************)
EXTENDS Integers, Sequences

CONSTANTS
  Configs,     \* sequences of grids: [resolutions, scale], scale 0 when there is none
  Precision,   \* bits of a float
  LastFactor   \* no denominator has a greater factor

\* The fractions are reduced: fractions.Fraction does it.
ConfigAssumption ==
  /\ Precision \in Nat \ {0} /\ LastFactor \in Nat
  /\ Configs \subseteq Seq([resolutions : Seq((Nat \ {0}) \X (1 .. LastFactor)), scale : Nat])
  /\ \A c \in Configs : \A g \in DOMAIN c : \A i \in DOMAIN c[g].resolutions :
       LET r == c[g].resolutions[i]
       IN \A f \in 2 .. LastFactor : ~(r[1] % f = 0 /\ r[2] % f = 0)

VARIABLES
  config,       \* the grids
  scales,       \* the resolution_scale of each grid that was looked at
  schemaErrors, \* the schema finds errors
  mapnikGrid,   \* a Mapnik layer of grids has meta tiles
  ignore,       \* ignore_error, or the setting
  index,        \* its resolution that is looked at
  number,       \* what is left of the denominator, or 0
  loop,         \* the next factor to try
  factors,      \* how often each factor was found in this denominator
  primeFact,    \* and at most, in the denominators before
  error,        \* an error was found
  pc            \* "schema", "grids", "exit" or "done"

case == <<config, schemaErrors, mapnikGrid, ignore>>
search == <<number, loop, factors, primeFact>>
vars == <<case, scales, index, search, error, pc>>

Factors == 2 .. LastFactor
NoFactors == [f \in Factors |-> 0]
grid == Len(scales) + 1

\* The products of the first values of g, from the empty one.
Multiplied(g) == LET p[i \in Nat] == IF i = 0 THEN 1 ELSE g[i] * p[i - 1] IN p

Power(f, n) == Multiplied([i \in Nat |-> f])[n]

\* What the factors make, each as often as it is counted.
Powers(count) == [i \in Nat |-> IF i \in Factors THEN Power(i, count[i]) ELSE 1]
Product(count) == Multiplied(Powers(count))[LastFactor]

Init ==
  /\ config \in Configs
  /\ schemaErrors \in BOOLEAN /\ mapnikGrid \in BOOLEAN /\ ignore \in BOOLEAN
  /\ scales = <<>> /\ index = 1
  /\ number = 0 /\ loop = 2 /\ factors = NoFactors /\ primeFact = NoFactors
  /\ error = FALSE /\ pc = "schema"

CheckSchema ==
  /\ pc = "schema"
  /\ pc' = IF schemaErrors /\ ~ignore THEN "exit" ELSE "grids"
  /\ UNCHANGED <<case, scales, index, search, error>>

-----------------------------------------------------------------------------
(* A scale that is given: floats.                                          *)

\* The nearest integer to n / d, the even one of two.
Nearest(n, d) ==
  LET q == n \div d
      twice == 2 * (n % d)
  IN IF twice > d \/ (twice = d /\ q % 2 = 1) THEN q + 1 ELSE q

\* The bound of the exponents.
Exponents == -8 .. 13

\* The float nearest to n / d: a mantissa and the power of two that divides it (or
\* multiplies it, below 0).
Float(n, d) ==
  LET e == CHOOSE e \in Exponents :
             LET up == IF e >= 0 THEN n * 2 ^ e ELSE n
                 by == IF e >= 0 THEN d ELSE d * 2 ^ (-e)
             IN by * 2 ^ (Precision - 1) <= up /\ up < by * 2 ^ Precision
  IN [man |-> IF e >= 0 THEN Nearest(n * 2 ^ e, d) ELSE Nearest(n, d * 2 ^ (-e)), exp |-> e]

\* A float times an integer, rounded again.
Times(a, k) ==
  IF a.exp >= 0 THEN Float(a.man * k, 2 ^ a.exp) ELSE Float(a.man * k * 2 ^ (-a.exp), 1)

IsInteger(a) == a.exp <= 0 \/ a.man % 2 ^ a.exp = 0

\* resolution * scale % 1 == 0.0
ScaledIsInteger(r, scale) == IsInteger(Times(Float(r[1], r[2]), scale))

Current == config[grid]

CheckScale ==
  /\ pc = "grids" /\ grid <= Len(config) /\ number = 0
  /\ Current.scale # 0 /\ index = 1
  /\ error' = (error \/ \E i \in DOMAIN Current.resolutions :
                          ~ScaledIsInteger(Current.resolutions[i], Current.scale))
  /\ scales' = Append(scales, Current.scale)
  /\ UNCHANGED <<case, index, search, pc>>

-----------------------------------------------------------------------------
(* A scale that is computed.                                               *)

\* The denominator of the next resolution.
NextResolution ==
  /\ pc = "grids" /\ grid <= Len(config) /\ number = 0
  /\ Current.scale = 0 /\ index <= Len(Current.resolutions)
  /\ number' = Current.resolutions[index][2]
  /\ loop' = 2 /\ factors' = NoFactors
  /\ UNCHANGED <<case, scales, index, primeFact, error, pc>>

\* A factor that divides is tried again.
Again == loop

\* round(x / loop) is the quotient: it is a product of twos and fives, which a float has
\* exactly up to 22 digits after the point.
Divide ==
  /\ number > 0 /\ loop <= number
  /\ IF number % loop = 0
     THEN /\ number' = number \div loop
          /\ factors' = [factors EXCEPT ![loop] = @ + 1]
          /\ loop' = Again
     ELSE /\ loop' = loop + 1
          /\ UNCHANGED <<number, factors>>
  /\ UNCHANGED <<case, scales, index, primeFact, error, pc>>

\* A plausible error: the factors of all the denominators are multiplied.
Added(a, b) == a + b

\* The most often a factor is in a denominator.
Most(a, b) == IF a > b THEN a ELSE b

\* The factors of a denominator are all found.
EndFactors ==
  /\ number > 0 /\ loop > number
  /\ primeFact' = [f \in Factors |-> Most(primeFact[f], factors[f])]
  /\ number' = 0
  /\ index' = index + 1
  /\ UNCHANGED <<case, scales, loop, factors, error, pc>>

SetScale ==
  /\ pc = "grids" /\ grid <= Len(config) /\ number = 0
  /\ Current.scale = 0 /\ index > Len(Current.resolutions)
  /\ scales' = Append(scales, Product(primeFact))
  /\ index' = 1
  /\ primeFact' = NoFactors
  /\ UNCHANGED <<case, number, loop, factors, error, pc>>

-----------------------------------------------------------------------------

AnyError == error \/ mapnikGrid

\* The layers, and what there is to do with the errors.
EndCheck ==
  /\ pc = "grids" /\ grid > Len(config)
  /\ error' = AnyError
  /\ pc' = IF error' /\ ~ignore THEN "exit" ELSE "done"
  /\ UNCHANGED <<case, scales, index, search>>

Next ==
  CheckSchema \/ CheckScale \/ NextResolution \/ Divide \/ EndFactors \/ SetScale \/ EndCheck

Spec == Init /\ [][Next]_vars

-----------------------------------------------------------------------------
\* resolution * scale is an integer.
Exact(g, scale) ==
  \A i \in DOMAIN g.resolutions : (g.resolutions[i][1] * scale) % g.resolutions[i][2] = 0

Accepted == pc = "done" /\ ~schemaErrors /\ ~error

\* The loop of _primefactors: what it found and what is left make the denominator, and
\* nothing smaller than the factor it tries divides what is left.
LoopInvariant ==
  number > 0 =>
    /\ Product(factors) * number = Current.resolutions[index][2]
    /\ \A f \in 2 .. loop - 1 : number % f # 0

\* A scale that is computed makes every resolution of its grid an integer, and no
\* smaller one does.
ScaleIsLeast ==
  \A g \in DOMAIN scales :
    config[g].scale = 0 =>
      /\ Exact(config[g], scales[g])
      /\ \A s \in 1 .. scales[g] - 1 : ~Exact(config[g], s)

\* What the floats say of a given scale is true.
FloatsDecide ==
  \A c \in Configs : \A g \in DOMAIN c : \A i \in DOMAIN c[g].resolutions :
    LET r == c[g].resolutions[i]
    IN c[g].scale # 0 /\ ScaledIsInteger(r, c[g].scale) => (r[1] * c[g].scale) % r[2] = 0

\* A configuration that is accepted has a scale for every grid that makes its resolutions
\* integers.
AcceptedIsExact ==
  Accepted => Len(scales) = Len(config) /\ \A g \in DOMAIN config : Exact(config[g], scales[g])
===============================================================================
