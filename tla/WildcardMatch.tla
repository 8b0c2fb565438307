--------------------------- MODULE WildcardMatch ---------------------------
(***************************************************************************)
(* Matching a line with a pattern of letters, '?' and '*'                  *)
(* (src/test_wildcard): is_match of match/main.c and of match2/main.c, one *)
(* action per branch of their loops, and the function of                   *)
(* memoization/main.c.  Both is_match go back to the last '*' when they    *)
(* fail, to the place in the line that last_line_start remembers; a NULL   *)
(* there is read all the same.                                             *)
(***************************************************************************)
EXTENDS Naturals, Sequences

CONSTANTS LineChars,       \* the characters of lines
          MaxLine,         \* bound: length of a line
          MaxPattern,      \* bound: length of a pattern
          Version          \* "match" or "match2"

PatternChars == LineChars \cup {"?", "*"}
NUL == "NUL"
NULL == 0

VARIABLES
    line, pattern,         \* the input
    l, p,                  \* where line and pattern point, the first is 1
    wildcard,              \* the flag
    last_line_start, last_pattern_start,
    pc,                    \* "test" *line, "body" of the loop, "end" after it,
                           \* "return", "crash", "overrun"
    ret

input == <<line, pattern>>
restart == <<last_line_start, last_pattern_start>>
vars == <<input, l, p, wildcard, restart, pc, ret>>

Strings(chars, n) == UNION {[1 .. k -> chars] : k \in 0 .. n}

(* The character at i, the terminator behind the last one.                 *)
At(s, i) == IF i <= Len(s) THEN s[i] ELSE NUL

(* The while loop tests *line before its first round, do does not.         *)
Init ==
    /\ line \in Strings(LineChars, MaxLine)
    /\ pattern \in Strings(PatternChars, MaxPattern)
    /\ l = 1
    /\ p = 1
    /\ wildcard = FALSE
    /\ last_line_start = NULL
    /\ last_pattern_start = NULL
    /\ pc = IF Version = "match" THEN "body" ELSE "test"
    /\ ret = 0

Return(r) == pc' = "return" /\ ret' = r

-----------------------------------------------------------------------------
(* The test of the while: NULL is dereferenced, or the terminator passed.   *)
Test ==
    /\ pc = "test"
    /\ pc' = IF l = NULL THEN "crash"
             ELSE IF l > Len(line) + 1 THEN "overrun"
             ELSE IF l = Len(line) + 1 THEN "end" ELSE "body"
    /\ UNCHANGED <<input, l, p, wildcard, restart, ret>>

(* The branches, in the order of either version.                           *)
Same == At(pattern, p) = At(line, l)
IsOne == At(pattern, p) = "?"
IsStar == At(pattern, p) = "*"
TakesStar == IsStar /\ (Version = "match" => ~Same)
TakesChar == (Same \/ IsOne) /\ (Version = "match2" => ~IsStar)

(* Mutants of Char: last_line_start is not set; it is the character that   *)
(* was matched.                                                            *)
CharForgets ==
    /\ pc = "body"
    /\ TakesChar
    /\ l' = l + 1
    /\ p' = p + 1
    /\ wildcard' = FALSE
    /\ pc' = "test"
    /\ UNCHANGED <<input, restart, ret>>

CharMarksSelf ==
    /\ pc = "body"
    /\ TakesChar
    /\ l' = l + 1
    /\ p' = p + 1
    /\ last_line_start' = IF wildcard THEN l ELSE last_line_start
    /\ wildcard' = FALSE
    /\ pc' = "test"
    /\ UNCHANGED <<input, last_pattern_start, ret>>

(* The character is matched; the first one behind a '*' is where the next  *)
(* attempt starts.  '?' at the end of the line is a failure.               *)
Char ==
    /\ pc = "body"
    /\ TakesChar
    /\ IF ~Same /\ At(line, l) = NUL
       THEN Return(0) /\ UNCHANGED <<l, p, wildcard, last_line_start>>
       ELSE /\ l' = l + 1
            /\ p' = p + 1
            /\ last_line_start' = IF wildcard THEN l + 1 ELSE last_line_start
            /\ wildcard' = FALSE
            /\ pc' = "test"
            /\ UNCHANGED ret
    /\ UNCHANGED <<input, last_pattern_start>>

(* A '*' that is the last of the pattern matches the rest.                 *)
Star ==
    /\ pc = "body"
    /\ TakesStar
    /\ IF At(pattern, p + 1) = NUL
       THEN Return(1) /\ UNCHANGED <<p, wildcard, last_pattern_start>>
       ELSE /\ last_pattern_start' = p
            /\ wildcard' = TRUE
            /\ p' = p + 1
            /\ pc' = "test"
            /\ UNCHANGED ret
    /\ UNCHANGED <<input, l, last_line_start>>

(* Behind a '*' the character is skipped.                                  *)
Skip ==
    /\ pc = "body"
    /\ ~TakesStar /\ ~TakesChar
    /\ wildcard
    /\ l' = l + 1
    /\ pc' = "test"
    /\ UNCHANGED <<input, p, wildcard, restart, ret>>

(* No match here: back to the last '*', or there was none.                 *)
Fail ==
    /\ pc = "body"
    /\ ~TakesStar /\ ~TakesChar
    /\ ~wildcard
    /\ IF last_pattern_start # NULL
       THEN /\ p' = last_pattern_start
            /\ l' = last_line_start
            /\ last_line_start' = NULL
            /\ pc' = "test"
            /\ UNCHANGED ret
       ELSE /\ Return(0)
            /\ UNCHANGED <<l, p, last_line_start>>
    /\ UNCHANGED <<input, wildcard, last_pattern_start>>

(* The line is at its end: what is left of the pattern decides.  match     *)
(* looks at one character of it, match2 lets a last '*' match nothing.     *)
End ==
    /\ pc = "end"
    /\ Return(IF \/ At(pattern, p) = NUL
                 \/ Version = "match" /\ (IsOne \/ IsStar)
                 \/ Version = "match2" /\ IsStar /\ At(pattern, p + 1) = NUL
              THEN 1 ELSE 0)
    /\ UNCHANGED <<input, l, p, wildcard, restart>>

Next == Test \/ Char \/ Star \/ Skip \/ Fail \/ End

Spec == Init /\ [][Next]_vars /\ WF_vars(Next)

-----------------------------------------------------------------------------
(* What the pattern means: Reach[k] holds the lengths of the beginnings of *)
(* the line that its first k characters match.                             *)
Matches(ln, pt) ==
    LET Reach[k \in 0 .. Len(pt)] ==
            IF k = 0 THEN {0}
            ELSE IF pt[k] = "*"
                 THEN {j \in 0 .. Len(ln) : \E i \in Reach[k - 1] : i <= j}
                 ELSE {j \in 1 .. Len(ln) :
                          j - 1 \in Reach[k - 1] /\ (pt[k] = "?" \/ pt[k] = ln[j])}
    IN  Len(ln) \in Reach[Len(pt)]

(* memoization: dp[w, t] is whether the rest of W matches the rest of T.   *)
(* An entry is computed when it is first asked for and then kept.          *)
memoization(W, T) ==
    LET dp[wt \in (1 .. Len(W) + 1) \X (1 .. Len(T) + 1)] ==
            LET w == wt[1]
                t == wt[2] IN
            IF w <= Len(W) /\ t <= Len(T) /\ (W[w] = T[t] \/ W[w] = "?")
            THEN dp[<<w + 1, t + 1>>]
            ELSE IF w > Len(W) THEN t > Len(T)
            ELSE W[w] = "*" /\ (dp[<<w + 1, t>>] \/ (t <= Len(T) /\ dp[<<w, t + 1>>]))
    IN  dp[<<1, 1>>]

-----------------------------------------------------------------------------
(* Type invariant: the pointers stay within the strings and their          *)
(* terminators, or NULL, unless both strings are empty.                    *)
TypeOK ==
    /\ l \in 0 .. Len(line) + 1 \/ (line = <<>> /\ pattern = <<>>)
    /\ p \in 1 .. Len(pattern) + 1 \/ (line = <<>> /\ pattern = <<>>)
    /\ wildcard \in BOOLEAN
    /\ last_line_start \in 0 .. Len(line) + 1
    /\ last_pattern_start \in 0 .. Len(pattern)
    /\ pc \in {"test", "body", "end", "return", "crash", "overrun"}
    /\ ret \in {0, 1}

StarsIn(s) == \E k \in DOMAIN s : s[k] = "*"

(* match/main.c 71, 81: NULL is read only for a line with a '*' in it, and *)
(* the terminator is passed only by an empty line with an empty pattern.   *)
(* match2 does neither, also for the line of which main.c 88 says          *)
(* "* in the path, process die".                                           *)
CrashOnlyByStarInLine ==
    /\ pc = "crash" => Version = "match" /\ StarsIn(line)
    /\ pc = "overrun" => Version = "match" /\ line = <<>> /\ pattern = <<>>

(* match/main.c 84-95: a line without '*' that matches is never turned     *)
(* away, however often the search goes back.                               *)
NoMatchMissed ==
    (pc = "return" /\ ~StarsIn(line) /\ Matches(line, pattern)) => ret = 1

(* match2/main.c 74: the answer is right unless more than one '*' is left  *)
(* when the line is at its end.                                            *)
Right ==
    pc = "return" =>
        \/ ret = 1 <=> Matches(line, pattern)
        \/ ret = 0 /\ At(pattern, p) = "*" /\ At(pattern, p + 1) = "*"

(* memoization/main.c 12-31: the answer is right for a text without '*'.   *)
MemoizationRight ==
    ~StarsIn(line) => (memoization(pattern, line) <=> Matches(line, pattern))

(* Going back to the last '*' comes to an end.                             *)
Terminates == <>(pc \in {"return", "crash", "overrun"})
=============================================================================
