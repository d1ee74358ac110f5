------------------------------ MODULE Rewrite ------------------------------
(***************************************************************************)
(* rewriteStream (proxy/rewrite.go): registry metadata passes through in   *)
(* chunks of any size, every download origin in it replaced, and only the  *)
(* bytes that could still begin a match held back.  With no rules it is a  *)
(* plain copy.  Indices are 0-based offsets, as in the code.               *)
(***************************************************************************)
EXTENDS Integers, Sequences, SequencesExt, FiniteSetsExt

VARIABLES
  body,     \* the upstream's body
  at,       \* how much of it has been read
  pending,  \* what was read and not yet written
  out       \* what dst has been given

streamVars == <<body, at, pending, out>>

Idle == body = <<>> /\ at = 0 /\ pending = <<>> /\ out = <<>>

\* The bytes of s from offset i up to offset j.
Slice(s, i, j) == SubSeq(s, i + 1, j)

\* Offsets at or after from where sep begins.
Matches(s, sep, from) ==
  {i \in from .. Len(s) - Len(sep) :
     \A j \in DOMAIN sep : s[i + j] = sep[j]}

\* "h", "s" and "/" stand for http, the s of https and ://host/; "F" for the
\* firewall's own prefix.
rewriteRules(ecosystem) ==
  LET https == [old |-> <<"h", "s", "/">>, new |-> <<"F">>]
      http == [old |-> <<"h", "/">>, new |-> <<"F">>]
  IN CASE ecosystem = "npm" -> <<https>>
       [] ecosystem = "pypi" -> <<https, http>>
       [] OTHER -> <<>>

\* Mutant of Keep: one byte too few is held back.
KeepShort(rules) ==
  Max({0} \cup {Len(rules[i].old) - 2 : i \in DOMAIN rules})

\* keep: the longest proper beginning of a match.
Keep(rules) == Max({0} \cup {Len(rules[i].old) - 1 : i \in DOMAIN rules})

\* How far data is consumed once the last match ended at start.
EndOf(data, start, keep, final) ==
  IF final THEN Len(data) ELSE Max({start, Len(data) - keep})

\* writeRewritten: the earliest match first, the first rule on a tie, the
\* search going on behind it; then the rest, but for what is held back.
writeRewritten(data, rules, keep, final) ==
  LET hits(s) == UNION {{<<i, r>> : i \in Matches(data, rules[r].old, s)} :
                          r \in DOMAIN rules}
      first(s) == CHOOSE h \in hits(s) : \A g \in hits(s) :
                    h[1] < g[1] \/ (h[1] = g[1] /\ h[2] <= g[2])
      write[s \in 0 .. Len(data)] ==
        IF hits(s) = {}
          THEN LET end == EndOf(data, s, keep, final)
               IN [out |-> Slice(data, s, end), end |-> end]
          ELSE LET h == first(s)
                   rest == write[h[1] + Len(rules[h[2]].old)]
               IN [out |-> Slice(data, s, h[1]) \o rules[h[2]].new \o rest.out,
                   end |-> rest.end]
  IN write[0]

\* One turn of rewriteStream's loop with the n bytes src.Read returned, and
\* whether it returned io.EOF with them.
Copied(rules, n, eof) ==
  LET data == pending \o Slice(body, at, at + n)
      done == writeRewritten(data, rules, Keep(rules), eof)
  IN /\ at' = at + n
     /\ out' = out \o done.out
     /\ pending' = IF eof THEN <<>> ELSE Slice(data, done.end, Len(data))
     /\ UNCHANGED body

ReadChunk(rules) ==
  \E n \in 1 .. Len(body) - at : Copied(rules, n, FALSE)

\* The end of the body, with its last bytes or after them.
ReadEOF(rules) == Copied(rules, Len(body) - at, TRUE)

-----------------------------------------------------------------------------
(* What it is meant to compute.                                            *)

\* strings.ReplaceAll on the whole text.
ReplaceEvery(text, rule) ==
  LET replaced[s \in 0 .. Len(text)] ==
        LET found == Matches(text, rule.old, s)
            i == Min(found)
        IN IF found = {} THEN Slice(text, s, Len(text))
           ELSE Slice(text, s, i) \o rule.new
                  \o replaced[i + Len(rule.old)]
  IN replaced[0]

\* The rules applied in turn.
Rewritten(text, rules) == FoldLeft(ReplaceEvery, text, rules)
=============================================================================
