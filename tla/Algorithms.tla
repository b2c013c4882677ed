------------------------------ MODULE Algorithms -------------------------------
(***************************************************************************)
(* The operators of Policy and Listing against reference definitions, one  *)
(* input per state.  The inputs are what the daemon can be given: patterns *)
(* and values over sets of characters, policies over a set of rules,       *)
(* arguments over a set of path components, and rows over a set of IDs.    *)
(***************************************************************************)
EXTENDS Policy, Listing

CONSTANTS
    PatternChars, ValueChars,   \* characters of patterns and values
    MaxPattern, MaxValue,       \* their lengths
    Rules, MaxRules,            \* rules, and how many a policy has
    Inputs,                     \* requests that a policy judges
    Components, MaxPath,        \* components of paths, and how many an argument has
    Cwds,                       \* working directories
    PathPatterns,               \* the patterns of path rules
    Ids, MaxTime,               \* IDs of rows, and their times in quarters of a second
    Retains, Cutoffs            \* limits of a list or of retention, by number and time

\* Patterns are ASCII, so no token is one of their characters, and values have no
\* line break.  A working directory was resolved when its request was submitted: it
\* exists, and neither a link nor a dot is in it.
ASSUME AlgorithmsAssumption ==
    /\ PatternChars \cap {"u", "n", ".*", "[^/]*", "[^/]", "other"} = {}
    /\ "n" \notin ValueChars
    /\ \A l \in DOMAIN Links : Links[l] \in Seq(Components)
    /\ \A d \in Cwds :
          /\ d \in Seq(Components)
          /\ \A k \in 1..Len(d) : /\ d[k] \notin {".", ".."}
                                  /\ SubSeq(d, 1, k) \in Files \ DOMAIN Links
    /\ IsFiniteSet(Ids)
    /\ {MaxPattern, MaxValue, MaxRules, MaxPath, MaxTime} \subseteq Nat
    /\ Retains \subseteq Nat /\ Cutoffs \subseteq Nat

VARIABLE case

Texts(chars, n) == UNION {[1..k -> chars] : k \in 0..n}

GlobCases ==
    [about: {"glob"}, pattern: Texts(PatternChars, MaxPattern),
     value: Texts(ValueChars, MaxValue)]

RuleCases ==
    [about: {"rules"}, input: Inputs,
     config: [version: {1}, defaults: {"deny", "require-approval", "allow"},
              rules: Texts(Rules, MaxRules)]]

PathCases ==
    [about: {"path"}, cwd: Cwds,
     argument: [option: BOOLEAN, absolute: BOOLEAN, path: Texts(Components, MaxPath)]]

RowCases ==
    [about: {"rows"}, retain: Retains, olderThan: Cutoffs,
     of: [Ids -> [created: 0..MaxTime, class: {"pending", "unapproved", "other"}]]]

Init ==
    \/ case \in GlobCases
    \/ case \in RuleCases
    \/ case \in PathCases
    \/ case \in RowCases
Next == UNCHANGED case
Spec == Init /\ [][Next]_case

-----------------------------------------------------------------------------
(* Patterns and rules.                                                      *)

\* For each position of the pattern, where in the value the rest of the pattern
\* matches the rest of the value: two stars stand for anything, one star for
\* anything within a component, a question mark for one character of a component,
\* another character for itself.
Places(pattern, value) ==
    LET ends == Len(value) + 1
        places[i \in 1..(Len(pattern) + 1)] ==
            IF i > Len(pattern) THEN {ends}
            ELSE IF pattern[i] = "*" /\ i < Len(pattern) /\ pattern[i + 1] = "*"
                 THEN {j \in 1..ends : \E e \in places[i + 2] : j <= e}
            ELSE IF pattern[i] = "*"
                 THEN {j \in 1..ends : \E e \in places[i + 1] :
                          j <= e /\ \A k \in j..(e - 1) : value[k] # "/"}
            ELSE {j \in 1..Len(value) :
                    /\ IF pattern[i] = "?" THEN value[j] # "/" ELSE value[j] = pattern[i]
                    /\ j + 1 \in places[i + 1]}
    IN  places

\* For ASCII patterns and values without line breaks, the translated expression of
\* glob matches exactly what the pattern means: a star does not cross a slash, two
\* stars do, also in runs of stars and at the ends.
GlobMeansPattern ==
    case.about = "glob" =>
        (glob(case.pattern, case.value) <=> 1 \in Places(case.pattern, case.value)[1])

Orders(n) == {p \in [1..n -> 1..n] : \A k \in 1..n : \E i \in 1..n : p[i] = k}

\* The comment of Evaluate: a deny rule cannot be shadowed by an earlier rule.  A
\* request that some deny rule matches is denied, whatever else the policy says; the
\* order of the rules does not matter; and no policy that Load accepts has a third
\* outcome.
DenyIsNotShadowed ==
    case.about = "rules" =>
        LET r == case.config.rules
        IN  /\ (\E i \in DOMAIN r : r[i].action = "deny" /\ matches(r[i].match, case.input)) =>
                  Evaluate(case.config, case.input) = "deny"
            /\ \A p \in Orders(Len(r)) :
                  Evaluate(case.config, case.input)
                      = Evaluate([case.config EXCEPT !.rules = [i \in 1..Len(r) |-> r[p[i]]]],
                                 case.input)
            /\ Loadable(case.config) =>
                  Evaluate(case.config, case.input) \in {"deny", "require-approval"}

-----------------------------------------------------------------------------
(* Paths.                                                                   *)

\* Where the kernel gets with a path, component by component; the way is lost when a
\* component does not exist or is a link that dangles, or when .. follows a link, which
\* Clean cannot know.
Walk(start, path) ==
    LET upTo[i \in 0..Len(path)] ==
            IF i = 0 THEN [at |-> start, linked |-> FALSE, lost |-> FALSE]
            ELSE LET w == upTo[i - 1]
                     there == Append(w.at, path[i])
                 IN  CASE path[i] = "." -> w
                       [] path[i] = ".." -> [w EXCEPT !.at = Up(w.at), !.lost = w.lost \/ w.linked]
                       [] OTHER -> [at |-> Follow(there),
                                    linked |-> w.linked \/ there \in DOMAIN Links,
                                    lost |-> w.lost \/ ~Present(there)]
    IN  upTo

Anything == [executable |-> Unset, argv |-> Unset, path |-> Unset, requesterUid |-> Unset]

\* A path rule sees the file an argument names, whether the argument is absolute,
\* relative to the working directory or the value of an option, and through links,
\* as long as the file exists and no .. follows a link: the rule matches whenever
\* its pattern matches the name of the file.
PathRulesSeeTheFile ==
    case.about = "path" =>
        LET arg == case.argument
            w == Walk(IF arg.absolute THEN <<>> ELSE case.cwd, arg.path)[Len(arg.path)]
            input == [executable |-> <<>>, cwd |-> case.cwd, argv |-> <<arg>>, uid |-> 0]
        IN  ~w.lost /\ (arg.absolute \/ arg.path # <<>>) =>
                /\ w.at \in policyPaths(input)
                /\ \A p \in PathPatterns :
                      glob(p, Text(w.at)) => matches([Anything EXCEPT !.path = p], input)

-----------------------------------------------------------------------------
(* Lists and retention.                                                     *)

Rows == {[id |-> i, created |-> case.of[i].created, class |-> case.of[i].class] : i \in Ids}
Second(row) == row.created \div 4

\* Pruning keeps at most the configured number of unapproved rows and none that is
\* too old, deletes a young row only for the count, and never deletes a row of a
\* later second than one it keeps, although created_at is compared as a text, in
\* which a time can come before an earlier one of its second.
PruningKeepsTheNewest ==
    case.about = "rows" =>
        LET unapproved == {r \in Rows : r.class = "unapproved"}
        IN  \A gone \in PruneSelections(Rows, case.olderThan, case.retain) :
                LET kept == unapproved \ gone
                IN  /\ Cardinality(kept) <= case.retain
                    /\ \A k \in kept : k.created >= case.olderThan
                    /\ \A g \in gone, k \in kept : Second(g) <= Second(k)
                    /\ \A g \in gone :
                          \/ g.created < case.olderThan
                          \/ Cardinality({r \in unapproved : Second(r) >= Second(g)}) > case.retain

\* A list that is cut leaves out no request of a later second than one it shows,
\* and a prefix that selects a pending request selects the only one, as long as
\* the pending requests fit into the list.
ListsShowTheNewest ==
    case.about = "rows" =>
        \A history \in BOOLEAN : \A listed \in recent(Rows, case.retain, history) :
            LET asked == {r \in Rows : history \/ r.class = "pending"}
            IN  /\ listed \subseteq asked
                /\ \A l \in listed, r \in asked \ listed : Second(r) <= Second(l)
                /\ \A prefix \in {i[1] : i \in Ids}, r \in Rows :
                      r \in selectRequest(listed, prefix) /\ Cardinality(asked) <= case.retain =>
                          \A q \in asked : q.id[1] = prefix => q = r
================================================================================
