-------------------------------- MODULE KeyScan --------------------------------
(***************************************************************************)
(* The helpers of KEYS and SCAN: stringmatchlen (match.cc) and             *)
(* pattern_limits (util.cc), as operators, and the test that the loop of   *)
(* exec_scan_keys makes of every key (that loop is commented out, with the *)
(* database it reads).                                                     *)
(*                                                                         *)
(* A character is its code.  A pattern is an argument in c->buf, with a CR *)
(* behind it.  Patterns are well formed and keys not empty: otherwise      *)
(* stringmatchlen reads past their ends.  Keys and patterns are in one     *)
(* case, so that nocase, which the caller sets, makes no difference (with  *)
(* both, the limits, which heed the case, do not suit the match), and      *)
(* without 0xFF, for which pattern_limits makes a limit that is too low.   *)
(***************************************************************************)
EXTENDS Integers, Sequences, SequencesExt

CONSTANTS
  Letters,     \* codes of letters, and of marks that patterns escape
  MaxTokens,   \* bound: parts of a pattern
  MaxKey       \* bound: length of a key

Star == 42
Question == 63
Open == 91
Close == 93
Not == 94
Escape == 92
Dash == 45
CR == 13

VARIABLES
  tokens, key,   \* the inputs: what the pattern means, and a key
  listed         \* whether the key is listed, or "asked"

vars == <<tokens, key, listed>>

-----------------------------------------------------------------------------
(* What a pattern means: a sequence of tokens, of which star matches any   *)
(* text and the others one character.                                      *)

Token(kind, text, chars) == [kind |-> kind, text |-> text, chars |-> chars]

Tokens ==
  {Token("star", <<Star>>, {}), Token("one", <<Question>>, Letters)}
  \cup {Token("char", <<ch>>, {ch}) : ch \in Letters}
  \cup {Token("char", <<Escape, ch>>, {ch}) : ch \in Letters \cup {Star}}
  \cup UNION {{Token("class", <<Open, c1, c2, Close>>, {c1, c2}),
               Token("class", <<Open, c1, Escape, c2, Close>>, {c1, c2}),
               Token("class", <<Open, Not, c1, Close>>, Letters \ {c1}),
               Token("class", <<Open, c1, Dash, c2, Close>>,
                     Letters \cap ((c1..c2) \cup (c2..c1)))} : c1, c2 \in Letters}

(* The text falls apart into pieces, one for each token. *)
Matches(ts, text) ==
  \E cut \in [0..Len(ts) -> 0..Len(text)] :
    /\ cut[0] = 0 /\ cut[Len(ts)] = Len(text)
    /\ \A k \in DOMAIN ts :
         \/ ts[k].kind = "star" /\ cut[k - 1] <= cut[k]
         \/ cut[k] = cut[k - 1] + 1 /\ text[cut[k]] \in ts[k].chars

-----------------------------------------------------------------------------

(* Mutant: only * ends the characters that limit the keys. *)
PlainUntilStar(p) ==
  IF Star \in ToSet(p) THEN SubSeq(p, 1, SelectInSeq(p, LAMBDA ch : ch = Star) - 1) ELSE p

-----------------------------------------------------------------------------
(* stringmatchlen, at pattern[i] and string[j] *)

At(p, i) == IF i <= Len(p) THEN p[i] ELSE CR
Min2(m, n) == IF m < n THEN m ELSE n
Max2(m, n) == IF m < n THEN n ELSE m

RECURSIVE LastStar(_, _), InClass(_, _, _, _), stringmatchlen(_, _, _, _), StarMatches(_, _, _, _)

(* while (pattern[1] == '*') *)
LastStar(p, i) == IF At(p, i + 1) = Star THEN LastStar(p, i + 1) ELSE i

(* The loop over a class from i on: whether ch is in it, and its end. *)
InClass(p, i, ch, match) ==
  LET first == p[i]
      range == At(p, i + 1) = Dash /\ Len(p) - i + 1 >= 3
      last == At(p, i + 2)
  IN  IF first = Escape THEN InClass(p, i + 2, ch, match \/ p[i + 1] = ch)
      ELSE IF first = Close THEN [match |-> match, end |-> i]
      ELSE IF range
      THEN InClass(p, i + 3, ch,
                   match \/ ch \in Min2(first, last)..Max2(first, last))
      ELSE InClass(p, i + 1, ch, match \/ first = ch)

(* The rest of the pattern is tried on every rest of the string. *)
StarMatches(p, i, s, j) ==
  j <= Len(s) /\ (stringmatchlen(p, i + 1, s, j) \/ StarMatches(p, i, s, j + 1))

(* One turn of the loop has moved behind pattern[i]. *)
Turn(p, i, s, j) ==
  IF j <= Len(s) THEN stringmatchlen(p, i + 1, s, j)
  ELSE IF At(p, i + 1) = Star THEN LastStar(p, i + 1) = Len(p) ELSE i = Len(p)

stringmatchlen(p, i, s, j) ==
  CASE i > Len(p) -> j > Len(s)
    [] At(p, i) = Star ->
         LastStar(p, i) = Len(p) \/ StarMatches(p, LastStar(p, i), s, j)
    [] At(p, i) = Question -> j <= Len(s) /\ Turn(p, i, s, j + 1)
    [] At(p, i) = Open ->
         LET negated == At(p, i + 1) = Not
             class == InClass(p, IF negated THEN i + 2 ELSE i + 1, s[j], FALSE)
         IN  class.match # negated /\ Turn(p, class.end, s, j + 1)
    [] At(p, i) = Escape /\ i < Len(p) -> p[i + 1] = s[j] /\ Turn(p, i + 1, s, j + 1)
    [] OTHER -> p[i] = s[j] /\ Turn(p, i, s, j + 1)

-----------------------------------------------------------------------------
(* pattern_limits *)

(* The characters in front of the first special one *)
Plain(p) ==
  LET special == {k \in DOMAIN p : p[k] \in {Star, Question, Open, Escape}}
  IN  IF special = {} THEN p ELSE SubSeq(p, 1, Min(special) - 1)

pattern_limits(p) ==
  LET prefix == Plain(p)
  IN  [star |-> prefix = <<>>,
       start |-> prefix,
       end |-> IF prefix = <<>> THEN prefix
               ELSE [prefix EXCEPT ![Len(prefix)] = @ + 1]]

(* The order of rocksdb::Slice::compare *)
Below(s, t) ==
  \/ IsStrictPrefix(s, t)
  \/ \E k \in DOMAIN s \cap DOMAIN t :
       s[k] < t[k] /\ \A l \in 1..(k - 1) : s[l] = t[l]

(* exec_scan_keys seeks to the start, and stops at the end. *)
Listed(p, k) ==
  LET limits == pattern_limits(p)
  IN  /\ limits.star \/ (~Below(k, limits.start) /\ Below(k, limits.end))
      /\ stringmatchlen(p, 1, k, 1)

-----------------------------------------------------------------------------

Init ==
  /\ tokens \in UNION {[1..n -> Tokens] : n \in 0..MaxTokens}
  /\ key \in UNION {[1..n -> Letters] : n \in 1..MaxKey}
  /\ listed = "asked"

Pattern == FlattenSeq([k \in DOMAIN tokens |-> tokens[k].text])

Next ==
  /\ listed = "asked"
  /\ listed' = IF Listed(Pattern, key) THEN "yes" ELSE "no"
  /\ UNCHANGED <<tokens, key>>

Spec == Init /\ [][Next]_vars

(* A key is listed exactly when the pattern matches it: stringmatchlen     *)
(* finds a way to place the stars if there is one, and the limits do not   *)
(* leave out a key that matches.                                           *)
ListedIffMatched == listed # "asked" => (listed = "yes" <=> Matches(tokens, key))

=============================================================================
