----------------------------- MODULE MCNodeActivity ----------------------------
(***************************************************************************)
(* Two worker processes p and q: with the keys of a rotation half done,    *)
(* with one Fernet key, with blobs in one store or in each process's own,  *)
(* and with a q that was left without the codec.                           *)
(***************************************************************************)
EXTENDS NodeActivity

CONSTANTS k1, k2

With(c, k) == [codec |-> c, key |-> k]
Both(sp, sq, s) == [setup |-> [p |-> sp, q |-> sq], shared |-> s]

MCProcess == {"p", "q"}
MCDeployments ==
  {Both(With("aes", k1), With("aes", k2), TRUE),
   Both(With("fernet", k1), With("fernet", k1), TRUE),
   Both(With("blob", None), With("blob", None), TRUE),
   Both(With("blob", None), With("blob", None), FALSE),
   Both(With("blob", None), With("none", None), TRUE)}

\* A node without retry_on behaves as one whose retry_on is not asked.
MCPolicies ==
  {[max |-> 2, retryOn |-> "unasked", deadline |-> FALSE],
   [max |-> 0, retryOn |-> "predicate", deadline |-> TRUE]}
=============================================================================
