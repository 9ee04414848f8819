----------------------------- MODULE MCArchive -----------------------------
(* A small instance of Archive: the server with two request handlers and a *)
(* command-line process, on a new archive or on one of Phase 7.            *)
EXTENDS Archive, TLC

CONSTANTS server, cli, s1, s2, c1, \* processes and their workers
          inv, junk,               \* an invoice, and a file that is none
          idInv, idJunk, hint      \* external ids

MCProcOf == [w \in Workers |-> IF w = c1 THEN cli ELSE server]
MCNaturalId == [d \in Docs |-> IF d = junk THEN idJunk ELSE idInv]
MCVerdict == [d \in Docs |-> IF d = inv THEN "valid" ELSE "parse_error"]
MCLegacy == <<[ext |-> idJunk, doc |-> junk, status |-> "parse_error"],
              [ext |-> idInv, doc |-> inv, status |-> "valid"]>>

\* Both files under the same hint, one of them also without.
MCRequests == {[doc |-> d, hint |-> h] : d \in Docs, h \in Hints \cup {Nobody}}
                  \ {[doc |-> junk, hint |-> Nobody]}

MCFewRequests == {r \in MCRequests : r.doc = inv}

\* The server's two request handlers are interchangeable.
Handlers == Permutations({s1, s2})
=============================================================================
