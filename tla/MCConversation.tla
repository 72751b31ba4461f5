--------------------------- MODULE MCConversation ---------------------------
(***************************************************************************)
(* A small instance of Conversation: two turn ids for three turns, three   *)
(* models, one of them without its key, and prompts that hold one answered *)
(* input.                                                                  *)
(***************************************************************************)
EXTENDS Conversation

CONSTANTS t1, t2, m1, m2, m3

Alike == Permutations({t1, t2})

=============================================================================
