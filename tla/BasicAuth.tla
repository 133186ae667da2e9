------------------------------ MODULE BasicAuth ------------------------------
(***************************************************************************)
(* The Authorization header of httpGetAuth(): "user:password" in base64,   *)
(* over bytes and six-bit digits, and what a server makes of it.           *)
(***************************************************************************)
EXTENDS Naturals, Sequences

Pad == 64   \* '=', which is no digit

\* i - k < n for size_t, where a negative difference is a very large number
Before(i, k, n) == i >= k /\ i - k < n

\* The four characters that stand for the bytes from 3k + 1 on; i is the loop's
\* position after it has taken them.
Quad(auth, k) ==
  LET n == Len(auth)
      i == IF 3 * k + 3 < n THEN 3 * k + 3 ELSE n
      b(j) == IF 3 * k + j <= n THEN auth[3 * k + j] ELSE 0
  IN <<b(1) \div 4,
       (b(1) % 4) * 16 + b(2) \div 16,
       IF Before(i, 2, n) THEN (b(2) % 16) * 4 + b(3) \div 64 ELSE Pad,
       IF Before(i, 1, n) THEN b(3) % 64 ELSE Pad>>

Encode(auth) ==
  [c \in 1..(4 * ((Len(auth) + 2) \div 3)) |-> Quad(auth, (c - 1) \div 4)[((c - 1) % 4) + 1]]

\* The server: three bytes of four digits, without those that are padding.
Decode(text) ==
  LET padding == Len(SelectSeq(text, LAMBDA d : d = Pad))
      d(j) == IF text[j] = Pad THEN 0 ELSE text[j]
      byte(j) == LET q == 4 * ((j - 1) \div 3)
                 IN CASE j % 3 = 1 -> d(q + 1) * 4 + d(q + 2) \div 16
                      [] j % 3 = 2 -> (d(q + 2) % 16) * 16 + d(q + 3) \div 4
                      [] OTHER     -> (d(q + 3) % 4) * 64 + d(q + 4)
  IN [j \in 1..(3 * (Len(text) \div 4) - padding) |-> byte(j)]

\* Credentials that the server gets as they were given.
Accepted(auth) == Decode(Encode(auth)) = auth
=============================================================================
