------------------------------- MODULE Filter -------------------------------
(***************************************************************************)
(* A filter profile of internal/filter/filter.go: LoadFilter reads the two *)
(* lists of the profile, Allow decides by them.  Names and patterns are    *)
(* sequences of characters.  A profile that is missing or malformed gives  *)
(* no filter at all: Refuse in Bridge.                                     *)
(***************************************************************************)
EXTENDS Naturals, Sequences, FiniteSets, SequencesExt

CONSTANTS Chars,      \* the characters of names, "*" not among them
          Names,      \* function names programs ask for
          Entries,    \* entries of the lists of a profile
          MaxEntries  \* bound: entries of a profile

ASSUME NamesAssumption == "*" \notin Chars /\ Names \subseteq Seq(Chars)
ASSUME EntriesAssumption ==
    Entries \subseteq Seq(Chars \cup {"*"}) /\ MaxEntries \in Nat

VARIABLES
    phase,         \* what LoadFilter reads: "allow", "deny"; or "loaded"
    allowList,     \* the entries of cfg.Allow read so far
    denyList,      \* the entries of cfg.Deny read so far
    exact,         \* Filter.exact: a function on names
    allowPatterns, denyPatterns, defaultAllow

lists == <<allowList, denyList>>
vars == <<phase, lists, exact, allowPatterns, denyPatterns, defaultAllow>>

HasStar(entry) == \E i \in DOMAIN entry : entry[i] = "*"

\* The assignment m[key] = value.
Put(m, key, value) ==
    [k \in DOMAIN m \cup {key} |-> IF k = key THEN value ELSE m[k]]
-----------------------------------------------------------------------------
(* Faulty variants: what plausible mistakes would make of the definitions    *)
(* below.                                                                    *)

\* An allowed name stays allowed when it is denied too.
LoadDeny_KeepsAllowed(entry) ==
    /\ phase = "deny"
    /\ Cardinality(allowList) + Cardinality(denyList) < MaxEntries
    /\ denyList' = denyList \cup {entry}
    /\ IF HasStar(entry)
       THEN denyPatterns' = denyPatterns \cup {entry} /\ UNCHANGED exact
       ELSE /\ exact' = IF entry \in DOMAIN exact THEN exact ELSE Put(exact, entry, FALSE)
            /\ UNCHANGED denyPatterns
    /\ UNCHANGED <<phase, allowList, allowPatterns, defaultAllow>>

\* A pattern is taken for a name.
LoadAllow_PatternAsName(entry) ==
    /\ phase = "allow"
    /\ Cardinality(allowList) < MaxEntries
    /\ allowList' = allowList \cup {entry}
    /\ exact' = Put(exact, entry, TRUE)
    /\ UNCHANGED <<phase, denyList, allowPatterns, denyPatterns, defaultAllow>>

\* What follows a star is not looked at.
MatchWildcard_PrefixOnly(pattern, name) ==
    \/ pattern = name
    \/ \E i \in DOMAIN pattern :
          pattern[i] = "*" /\ IsPrefix(SubSeq(pattern, 1, i - 1), name)

\* A star stands for one character at least.
MatchWildcard_NotEmpty(pattern, name) ==
    \/ pattern = name
    \/ \E i \in DOMAIN pattern :
          LET prefix == SubSeq(pattern, 1, i - 1)
              suffix == SubSeq(pattern, i + 1, Len(pattern))
          IN /\ pattern[i] = "*"
             /\ IsPrefix(prefix, name) /\ IsSuffix(suffix, name)
             /\ Len(name) > Len(prefix) + Len(suffix)
-----------------------------------------------------------------------------
\* What is left of the name after the prefix has to match the suffix, which
\* may hold stars itself; a suffix without stars may also end the name.
matchWildcard[pattern \in Seq(Chars \cup {"*"})] ==
    [name \in Seq(Chars) |->
        IF ~HasStar(pattern)
        THEN pattern = name
        ELSE LET star   == CHOOSE i \in DOMAIN pattern :
                               pattern[i] = "*" /\ \A j \in 1..(i - 1) : pattern[j] # "*"
                 prefix == SubSeq(pattern, 1, star - 1)
                 suffix == SubSeq(pattern, star + 1, Len(pattern))
                 rest   == SubSeq(name, star, Len(name))
             IN /\ IsPrefix(prefix, name)
                /\ \/ suffix = << >>
                   \/ matchWildcard[suffix][rest]
                   \/ IsSuffix(suffix, rest) /\ ~HasStar(suffix)]

MatchWildcard(pattern, name) == matchWildcard[pattern][name]

Matches(patterns, name) == \E p \in patterns : MatchWildcard(p, name)

\* Filter.Allow.
Allow(name) ==
    IF name \in DOMAIN exact
    THEN exact[name]
    ELSE /\ ~Matches(denyPatterns, name)
         /\ Matches(allowPatterns, name) \/ defaultAllow
-----------------------------------------------------------------------------
\* LoadFilter has parsed the profile, or AllowAll has made an empty one.
Init ==
    /\ phase \in {"allow", "loaded"}
    /\ allowList = {} /\ denyList = {}
    /\ exact = [e \in {} |-> TRUE]
    /\ allowPatterns = {} /\ denyPatterns = {}
    /\ defaultAllow \in BOOLEAN
    /\ phase = "loaded" => defaultAllow

\* One turn of the loop over cfg.Allow.  Bound: MaxEntries.
LoadAllow(entry) ==
    /\ phase = "allow"
    /\ Cardinality(allowList) < MaxEntries
    /\ allowList' = allowList \cup {entry}
    /\ IF HasStar(entry)
       THEN allowPatterns' = allowPatterns \cup {entry} /\ UNCHANGED exact
       ELSE exact' = Put(exact, entry, TRUE) /\ UNCHANGED allowPatterns
    /\ UNCHANGED <<phase, denyList, denyPatterns, defaultAllow>>

\* One turn of the loop over cfg.Deny.  Bound: MaxEntries.
LoadDeny(entry) ==
    /\ phase = "deny"
    /\ Cardinality(allowList) + Cardinality(denyList) < MaxEntries
    /\ denyList' = denyList \cup {entry}
    /\ IF HasStar(entry)
       THEN denyPatterns' = denyPatterns \cup {entry} /\ UNCHANGED exact
       ELSE exact' = Put(exact, entry, FALSE) /\ UNCHANGED denyPatterns
    /\ UNCHANGED <<phase, allowList, allowPatterns, defaultAllow>>

\* The end of a list.
ListEnds ==
    /\ phase # "loaded"
    /\ phase' = IF phase = "allow" THEN "deny" ELSE "loaded"
    /\ UNCHANGED <<lists, exact, allowPatterns, denyPatterns, defaultAllow>>

Next == \/ \E entry \in Entries : LoadAllow(entry) \/ LoadDeny(entry)
        \/ ListEnds

Spec == Init /\ [][Next]_vars
-----------------------------------------------------------------------------
(* Properties *)

\* What the lists say in the order of Allow's comment: an entry for the very
\* name before a pattern, at the same specificity a denial before a permission.
Documented(name) ==
    LET denied  == {e \in denyList  : HasStar(e) /\ MatchWildcard(e, name)}
        allowed == {e \in allowList : HasStar(e) /\ MatchWildcard(e, name)}
    IN IF name \in allowList \cup denyList
       THEN name \notin denyList
       ELSE denied = {} /\ (allowed # {} \/ defaultAllow)

\* A loaded filter decides every name as its profile says, also a name that is
\* in both lists or a list that repeats itself.
DecidesAsDocumented ==
    phase = "loaded" => \A name \in Names : Allow(name) <=> Documented(name)

\* The reference for patterns: pos[i] characters of the name are used up before
\* the i-th character of the pattern, and a star may use up any number.
Glob(pattern, name) ==
    \E pos \in [1..(Len(pattern) + 1) -> 0..Len(name)] :
        /\ pos[1] = 0 /\ pos[Len(pattern) + 1] = Len(name)
        /\ \A i \in DOMAIN pattern :
              IF pattern[i] = "*"
              THEN pos[i + 1] >= pos[i]
              ELSE /\ pos[i + 1] = pos[i] + 1
                   /\ name[pos[i + 1]] = pattern[i]

\* A profile that denies by default allows nothing that no entry of its allow
\* list covers, in whatever way its patterns are written.
AllowBounded ==
    phase = "loaded" /\ ~defaultAllow =>
        \A name \in Names :
            Allow(name) => \E e \in allowList : Glob(e, name)

OneStar(pattern) == Cardinality({i \in DOMAIN pattern : pattern[i] = "*"}) <= 1

\* An entry of the deny list with one star denies every name it covers that is
\* not allowed by name.  Of several stars this does not hold: what follows the
\* first of them has to match at once, so that it stands for nothing.
DenyHolds ==
    phase = "loaded" =>
        \A e \in denyList, name \in Names :
            OneStar(e) /\ Glob(e, name) /\ name \notin allowList => ~Allow(name)

\* What has been read so far is in the filter.
LoadInv ==
    /\ DOMAIN exact = {e \in allowList \cup denyList : ~HasStar(e)}
    /\ \A e \in DOMAIN exact : exact[e] = (e \notin denyList)
    /\ allowPatterns = {e \in allowList : HasStar(e)}
    /\ denyPatterns = {e \in denyList : HasStar(e)}

\* Every variable has its type, and the deny list is read last.
TypeOK ==
    /\ phase \in {"allow", "deny", "loaded"}
    /\ allowList \subseteq Entries /\ denyList \subseteq Entries
    /\ phase = "allow" => denyList = {}
    /\ defaultAllow \in BOOLEAN
    /\ exact \in [{e \in allowList \cup denyList : ~HasStar(e)} -> BOOLEAN]
=============================================================================
