------------------------------- MODULE Versions -------------------------------
(***************************************************************************)
(* Semantic versions as the plugin store orders them, and the constraints  *)
(* a plugin puts on the versions of what it depends on.                    *)
(*                                                                         *)
(* A version is what parse leaves of it, without its build metadata, which *)
(* no comparison looks at.  An identifier of the prerelease is a number or *)
(* a text, and a text stands by its place in the order of texts.  parse    *)
(* refuses numbers with leading zeros, so equal numbers are equal texts.   *)
(***************************************************************************)
EXTENDS Integers, Sequences

Identifier == [numeric : BOOLEAN, value : Nat]
SemanticVersion == [major : Nat, minor : Nat, patch : Nat, prerelease : Seq(Identifier)]

-----------------------------------------------------------------------------
(* Precedence *)

\* Numbers come before texts.
LessIdentifier(l, r) ==
    \/ l.numeric /\ ~r.numeric
    \/ l.numeric = r.numeric /\ l.value < r.value

\* The first identifier that differs decides, or else the length.
LessIdentifiers(l, r) ==
    \E k \in 1..Len(r) :
        /\ k <= Len(l) + 1
        /\ \A j \in 1..k - 1 : l[j] = r[j]
        /\ k = Len(l) + 1 \/ LessIdentifier(l[k], r[k])

\* A release comes after its prereleases.
LessPrerelease(l, r) == l # <<>> /\ (r = <<>> \/ LessIdentifiers(l, r))

SameCore(a, b) == a.major = b.major /\ a.minor = b.minor /\ a.patch = b.patch

LessCore(a, b) ==
    \/ a.major < b.major
    \/ a.major = b.major /\ a.minor < b.minor
    \/ a.major = b.major /\ a.minor = b.minor /\ a.patch < b.patch

\* __lt__ and __eq__; the other comparisons are what total_ordering makes of them.
Less(a, b) == LessCore(a, b) \/ (SameCore(a, b) /\ LessPrerelease(a.prerelease, b.prerelease))
Same(a, b) == SameCore(a, b) /\ a.prerelease = b.prerelease

AtMost(a, b) == Less(a, b) \/ Same(a, b)
AtLeast(a, b) == ~Less(a, b)
Greater(a, b) == ~Less(a, b) /\ ~Same(a, b)

\* 1, 0 or -1.
compare_versions(a, b) == IF Greater(a, b) THEN 1 ELSE IF Less(a, b) THEN -1 ELSE 0

-----------------------------------------------------------------------------
(* Constraints *)

Constraint == [op : {">=", "<=", ">", "<", "^", "~", "="}, version : SemanticVersion]

Meets(a, c) ==
    CASE c.op = ">=" -> AtLeast(a, c.version)
      [] c.op = "<=" -> ~Greater(a, c.version)
      [] c.op = ">"  -> ~AtMost(a, c.version)
      [] c.op = "<"  -> ~AtLeast(a, c.version)
      [] c.op = "="  -> Same(a, c.version)
      [] c.op = "^"  -> AtLeast(a, c.version) /\ a.major = c.version.major
      [] c.op = "~"  -> AtLeast(a, c.version) /\ a.major = c.version.major
                                              /\ a.minor = c.version.minor

\* An expression is a set of constraints; "*" is the empty one.
satisfies_version(a, expression) == \A c \in expression : Meets(a, c)

=============================================================================
