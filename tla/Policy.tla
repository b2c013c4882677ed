-------------------------------- MODULE Policy --------------------------------
(***************************************************************************)
(* internal/policy/policy.go as operators: which policies Load accepts,    *)
(* what Evaluate says of a request, how a glob is translated to a regular  *)
(* expression, and which paths a request is taken to name.                 *)
(*                                                                         *)
(* A text is a sequence of characters; "u" stands for every character      *)
(* outside ASCII and "n" for a line break.  A path is the sequence of its  *)
(* components, an argument a record: whether it has the form --option=PATH,*)
(* whether the path in it is absolute, and the components of that path.    *)
(***************************************************************************)
EXTENDS Naturals, Sequences

CONSTANTS
    Files,         \* the absolute paths that are there, to lstat
    Links,         \* the symbolic links among them, with where each leads in the end:
                   \* to no other link, and when it dangles to a path outside Files
    Unset          \* a dimension a rule does not mention

-----------------------------------------------------------------------------
(* Patterns.                                                                *)

\* The loop of glob, from each of its positions to the end.  A literal is quoted byte
\* by byte, so the bytes of a character outside ASCII become other characters, which
\* match nothing in the value.
tokensFrom(pattern) ==
    LET from[i \in 1..(Len(pattern) + 1)] ==
            IF i > Len(pattern) THEN <<>>
            ELSE IF pattern[i] = "*" /\ i < Len(pattern) /\ pattern[i + 1] = "*"
                 THEN <<".*">> \o from[i + 2]
            ELSE IF pattern[i] = "*" THEN <<"[^/]*">> \o from[i + 1]
            ELSE IF pattern[i] = "?" THEN <<"[^/]">> \o from[i + 1]
            ELSE IF pattern[i] = "u" THEN <<"other">> \o from[i + 1]
            ELSE <<pattern[i]>> \o from[i + 1]
    IN  from

\* Mutant: ** is two single stars.
tokensOfSingles(pattern) ==
    [i \in DOMAIN pattern |->
        IF pattern[i] = "*" THEN "[^/]*" ELSE IF pattern[i] = "?" THEN "[^/]" ELSE pattern[i]]

tokens(pattern) == tokensFrom(pattern)[1]

\* What a token of the expression matches; the dot of Go's regexp is not a line
\* break.
Fits(token, text) ==
    CASE token = ".*" -> \A i \in DOMAIN text : text[i] # "n"
      [] token = "[^/]*" -> \A i \in DOMAIN text : text[i] # "/"
      [] token = "[^/]" -> Len(text) = 1 /\ text[1] # "/"
      [] OTHER -> text = <<token>>

\* An anchored match: the value is cut into one piece per token.
glob(pattern, value) ==
    LET t == tokens(pattern)
    IN  \E cut \in [0..Len(t) -> 0..Len(value)] :
            /\ cut[0] = 0 /\ cut[Len(t)] = Len(value)
            /\ \A k \in 1..Len(t) :
                  /\ cut[k - 1] <= cut[k]
                  /\ Fits(t[k], SubSeq(value, cut[k - 1] + 1, cut[k]))

-----------------------------------------------------------------------------
(* Paths.                                                                   *)

\* The text of an absolute path; components are single characters.
Text(path) ==
    IF path = <<>> THEN <<"/">>
    ELSE [i \in 1..(2 * Len(path)) |-> IF i % 2 = 1 THEN "/" ELSE path[i \div 2]]

Up(path) == IF path = <<>> THEN <<>> ELSE SubSeq(path, 1, Len(path) - 1)

\* filepath.Clean of an absolute path, after each of its components.
CleanUpTo(path) ==
    LET upTo[i \in 0..Len(path)] ==
            IF i = 0 THEN <<>>
            ELSE IF path[i] = "." THEN upTo[i - 1]
            ELSE IF path[i] = ".." THEN Up(upTo[i - 1])
            ELSE Append(upTo[i - 1], path[i])
    IN  upTo

Clean(path) == CleanUpTo(path)[Len(path)]

Follow(path) == IF path \in DOMAIN Links THEN Links[path] ELSE path

\* Where a clean path leads, after each of its components.
FollowUpTo(path) ==
    LET upTo[i \in 0..Len(path)] ==
            IF i = 0 THEN <<>> ELSE Follow(Append(upTo[i - 1], path[i]))
    IN  upTo

\* The entry is there, and when it is a link it does not dangle.
Present(path) == path \in Files /\ Follow(path) \in Files \cup {<<>>}

Exists(path) == \A i \in 1..Len(path) : Present(Append(FollowUpTo(path)[i - 1], path[i]))

\* filepath.EvalSymlinks of a clean path, which stays as it is when some part of it
\* does not exist, a dangling link at its end included.
EvalSymlinks(path) == IF Exists(path) THEN FollowUpTo(path)[Len(path)] ELSE path

\* The argument as it stands, a relative path when it is an option, and the value
\* after the equals sign; empty ones are skipped.
Candidates(argument) ==
    LET value == [absolute |-> argument.absolute, path |-> argument.path]
        whole == [absolute |-> FALSE,
                  path |-> <<"o">> \o (IF argument.absolute THEN argument.path
                                       ELSE SubSeq(argument.path, 2, Len(argument.path)))]
    IN  {c \in IF argument.option THEN {whole, value} ELSE {value} :
            c.absolute \/ c.path # <<>>}

\* Mutant: relative arguments are taken from the root.
CanonicalFromRoot(cwd, candidate) == EvalSymlinks(Clean(candidate.path))

Canonical(cwd, candidate) ==
    EvalSymlinks(Clean(IF candidate.absolute THEN candidate.path
                       ELSE cwd \o candidate.path))

policyPaths(input) ==
    {Clean(input.executable), Clean(input.cwd)}
        \cup UNION {{Canonical(input.cwd, c) : c \in Candidates(input.argv[i])} :
                        i \in DOMAIN input.argv}

-----------------------------------------------------------------------------
(* Rules.                                                                   *)

ArgumentText(argument) ==
    (IF argument.option THEN <<"o">> ELSE <<>>)
        \o (IF argument.absolute THEN Text(argument.path) ELSE Tail(Text(argument.path)))

matches(match, input) ==
    /\ match.executable # Unset => glob(match.executable, Text(input.executable))
    /\ match.requesterUid # Unset => match.requesterUid = input.uid
    /\ match.argv # Unset =>
          /\ Len(match.argv) = Len(input.argv)
          /\ \A i \in DOMAIN match.argv : glob(match.argv[i], ArgumentText(input.argv[i]))
    /\ match.path # Unset => \E p \in policyPaths(input) : glob(match.path, Text(p))

validAction(action) == action \in {"require-approval", "deny"}

\* Load, of a file that parses.
Loadable(config) ==
    /\ config.version = 1 /\ validAction(config.defaults)
    /\ Len(config.rules) <= 10000
    /\ \A i \in DOMAIN config.rules : validAction(config.rules[i].action)

\* Mutant: the two loops are swapped.
EvaluateApprovalFirst(config, input) ==
    LET some(action) == \E i \in DOMAIN config.rules :
                            config.rules[i].action = action /\ matches(config.rules[i].match, input)
    IN  IF some("require-approval") THEN "require-approval"
        ELSE IF some("deny") THEN "deny"
        ELSE config.defaults

Evaluate(config, input) ==
    LET some(action) == \E i \in DOMAIN config.rules :
                            config.rules[i].action = action /\ matches(config.rules[i].match, input)
    IN  IF some("deny") THEN "deny"
        ELSE IF some("require-approval") THEN "require-approval"
        ELSE config.defaults
===============================================================================
