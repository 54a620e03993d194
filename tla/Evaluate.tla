------------------------------- MODULE Evaluate -------------------------------
(***************************************************************************)
(* evaluate.h: how many lines a campaign may dial now.  The two settings   *)
(* that are fractions, maxratio and maxabandons, are given in units of     *)
(* 1/Scale; the code's truncations to integers are the \div below, and     *)
(* agree with it because a negative result is replaced by 0 at once.       *)
(***************************************************************************)
EXTENDS Integers

CONSTANT Scale     \* the unit of maxratio and maxabandons

ASSUME ScaleAssumption == Scale \in Nat \ {0}

Modes == {"auto", "power", "predictive", "preview", "inbound", "closer"}

greaterOf(lhs, rhs) == IF lhs > rhs THEN lhs ELSE rhs
lesserOf(lhs, rhs)  == IF lhs < rhs THEN lhs ELSE rhs

\* Slips the checks must catch: lines per agent without those in use; maxlines
\* without them.
powerAnew(maxratio, availagents, linesdialing) ==
  IF availagents = 0 THEN 0 ELSE greaterOf((maxratio * availagents) \div Scale, 0)
autoAnew(linesdialing, maxlines) == greaterOf(maxlines, 0)

power(maxratio, availagents, linesdialing) ==
  IF availagents = 0 THEN 0
  ELSE greaterOf((maxratio * availagents) \div Scale - linesdialing, 0)

\* The branch for mode "auto".
auto(linesdialing, maxlines) == greaterOf(maxlines - linesdialing, 0)

\* The branch for mode "predictive": the throttle, then a line for every agent
\* who has none.  dCalls and dAbandons count as 1 when they are 0.
throttle(linesdialing, availagents, maxratio, maxlines, maxabandons, calls, abandons) ==
  LET wanted == (maxabandons * greaterOf(calls, 1)) \div Scale
                  - greaterOf(abandons, 1) - linesdialing + availagents
  IN  lesserOf(lesserOf(greaterOf(wanted, 0), maxlines),
               power(maxratio, availagents, linesdialing))

predictive(linesdialing, availagents, maxratio, maxlines, maxabandons, calls, abandons) ==
  LET linestodial == throttle(linesdialing, availagents, maxratio, maxlines,
                              maxabandons, calls, abandons)
      idle == availagents - linesdialing
  IN  IF availagents = 0 THEN 0
      ELSE lesserOf(IF idle > 0 THEN greaterOf(idle, linestodial) ELSE linestodial, maxlines)

\* Mode "preview" sets maxratio to 1, compares where it means to
\* assign the mode, and falls through to 0 like "inbound" and "closer".
evaluate(mode, linesdialing, availagents, maxratio, maxlines, maxabandons, calls, abandons) ==
  CASE mode = "auto"       -> auto(linesdialing, maxlines)
    [] mode = "power"      -> power(maxratio, availagents, linesdialing)
    [] mode = "predictive" -> predictive(linesdialing, availagents, maxratio, maxlines,
                                         maxabandons, calls, abandons)
    [] OTHER               -> 0
===============================================================================
