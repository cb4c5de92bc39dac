------------------------------ MODULE Redirects ------------------------------
(***************************************************************************)
(* How the path of a request is matched against the pattern of a redirect, *)
(* pkg/services/websites: matchRedirectAndReplace, one action for each     *)
(* case of its loop.                                                       *)
(*                                                                         *)
(* Paths and patterns are sequences of symbols: "/", letters, "*" and      *)
(* names of variables, such as ":post", which are one symbol.  Patterns    *)
(* are what the tests call with: variables are segments of their own, and  *)
(* "*" comes last.  The code checks no pattern, but this is what it can    *)
(* mean.  Left out: paths with an empty segment that isn't the last one,   *)
(* and variables of which one is the beginning of another.                 *)
(***************************************************************************)
EXTENDS Integers, SequencesExt

CONSTANTS
    Letters,      \* what words are made of
    Words,        \* what is between two slashes of a path: sequences of letters
    Variables,    \* names of variables
    MaxSegments   \* bound on the segments of paths and patterns

ASSUME RedirectsAssumption ==
    /\ IsFiniteSet(Variables) /\ Variables \cap {"/", "*", ":splat"} = {}
    /\ Letters \cap (Variables \cup {"/", "*", ":splat"}) = {}
    /\ Words \subseteq Seq(Letters) \ {<<>>} /\ MaxSegments \in Nat \ {0}

VARIABLES
    asked,        \* the segments of the path
    rule,         \* the segments of the pattern
    rest,         \* path: what is left of it
    pattern,      \* what is left of it
    destination,  \* where the visitor is led
    verdict       \* "loop" while it runs, then matched

redirectsVars == <<asked, rule, rest, pattern, destination, verdict>>

SegmentsOf(inner, last) ==
    {Append(s, l) : s \in BoundedSeq(inner, MaxSegments - 1), l \in last}

PathsAsked == SegmentsOf(Words, Words \cup {<<>>})

Names  == {<<v>> : v \in Variables}
Splats == {w \o <<"*">> : w \in Words \cup {<<>>}}
Rules  == SegmentsOf(Words \cup Names, Words \cup {<<>>} \cup Names \cup Splats)

Text(segments) == FlattenSeq([i \in DOMAIN segments |-> <<"/">> \o segments[i]])

\* A destination in which all there is can be seen.
To == SetToSeq(Variables) \o <<":splat">>

\* strings.ReplaceAll
Replace(text, name, by) ==
    FlattenSeq([i \in DOMAIN text |-> IF text[i] = name THEN by ELSE <<text[i]>>])

RedirectsInit ==
    /\ asked \in PathsAsked /\ rule \in Rules
    /\ rest = Text(asked) /\ pattern = Text(rule)
    /\ destination = To /\ verdict = "loop"

-----------------------------------------------------------------------------
Looping == verdict = "loop" /\ pattern # <<>> /\ rest # <<>>

Return(matches, to) ==
    /\ verdict' = (IF matches THEN "matched" ELSE "not matched")
    /\ destination' = (IF matches THEN to ELSE <<>>)
    /\ UNCHANGED <<asked, rule, rest, pattern>>

\* Fault: the variable takes what follows, slashes too.
EndOfEverything(text) == Len(text)

\* IndexByte: what comes before the next slash, or all of it.
EndOfSegment(text) ==
    LET slashes == {i \in DOMAIN text : text[i] = "/"}
    IN  IF slashes = {} THEN Len(text) ELSE Min(slashes) - 1

MatchVariable ==
    LET n == EndOfSegment(rest)
    IN  /\ Looping /\ Head(pattern) \in Variables
        /\ pattern' = Tail(pattern)
        /\ rest' = SubSeq(rest, n + 1, Len(rest))
        /\ destination' = Replace(destination, Head(pattern), SubSeq(rest, 1, n))
        /\ UNCHANGED <<asked, rule, verdict>>

MatchSplat ==
    /\ Looping /\ Head(pattern) = "*"
    /\ Return(TRUE, Replace(destination, ":splat", rest))

MatchSymbol ==
    /\ Looping /\ Head(pattern) \notin Variables \cup {"*"}
    /\ IF Head(pattern) = Head(rest)
       THEN /\ rest' = Tail(rest) /\ pattern' = Tail(pattern)
            /\ UNCHANGED <<asked, rule, destination, verdict>>
       ELSE Return(FALSE, <<>>)

MatchEnd ==
    /\ verdict = "loop" /\ (pattern = <<>> \/ rest = <<>>)
    /\ Return(pattern \in {<<>>, <<"*">>} /\ rest = <<>>,
              IF pattern = <<"*">> THEN Replace(destination, ":splat", rest) ELSE destination)

RedirectsNext == MatchVariable \/ MatchSplat \/ MatchSymbol \/ MatchEnd

RedirectsSpec == RedirectsInit /\ [][RedirectsNext]_redirectsVars

-----------------------------------------------------------------------------
(* Properties.                                                             *)

RedirectsTypeOK ==
    /\ asked \in PathsAsked /\ rule \in Rules
    /\ IsSuffix(rest, Text(asked)) /\ IsSuffix(pattern, Text(rule))
    /\ verdict \in {"loop", "matched", "not matched"}

\* What is meant by a pattern: the segments of the path are its own, in which a
\* variable is any segment that isn't empty, and with "*" at its end the path goes on
\* as it likes.  The destination has what each variable is, and what "*" is.
Goes(segment, part) == IF segment \in Names THEN part # <<>> ELSE part = segment

IsMeant ==
    LET n == Len(rule)
        splat == Last(rule) \in Splats
    IN  /\ IF splat THEN Len(asked) >= n ELSE Len(asked) = n
        /\ \A i \in 1 .. n - 1 : Goes(rule[i], asked[i])
        /\ IF splat THEN IsPrefix(Front(Last(rule)), asked[n]) ELSE Goes(rule[n], asked[n])

Meaning(name) ==
    LET places == {i \in DOMAIN rule : rule[i] = <<name>>}
    IN  IF name = ":splat"
        THEN IF Last(rule) \in Splats
             THEN LET n == Len(rule)
                      here == SubSeq(asked[n], Len(rule[n]), Len(asked[n]))
                  IN  here \o Text(SubSeq(asked, n + 1, Len(asked)))
             ELSE <<name>>
        ELSE IF places = {} THEN <<name>> ELSE asked[CHOOSE i \in places : \A j \in places : i <= j]

\* The loop finds that a path matches exactly if it is meant to, and leads to the
\* destination that is meant, with the first segment of a variable that comes twice.
RedirectsAreMeant ==
    verdict # "loop" =>
        /\ (verdict = "matched") <=> IsMeant
        /\ destination = IF IsMeant THEN FlattenSeq([i \in DOMAIN To |-> Meaning(To[i])]) ELSE <<>>
=============================================================================
