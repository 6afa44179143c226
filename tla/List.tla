-------------------------------- MODULE List --------------------------------
(***************************************************************************)
(* The singly linked list of tools/list.c, as a sequence of its objects in *)
(* list order.  The list is generic: an equality callback says which       *)
(* objects match.  Here the caller passes the set `hits` of the positions  *)
(* at which the callback answers true, so that a walk "to the first match" *)
(* is the least element of that set.                                       *)
(***************************************************************************)
EXTENDS Naturals, Sequences, FiniteSetsExt

\* LL_create: a list whose head is NULL.
LL_create == << >>

\* LL_append walks to the last node and hangs the new one there.
LL_append(list, obj) == Append(list, obj)

\* LL_find: the position of the first object that matches, 0 for NULL.
LL_find(hits) == IF hits = {} THEN 0 ELSE Min(hits)

\* LL_delete unlinks the first object that matches; no match, no change.
UnlinkAt(list, i) == SubSeq(list, 1, i - 1) \o SubSeq(list, i + 1, Len(list))
LL_delete(list, hits) == IF hits = {} THEN list ELSE UnlinkAt(list, Min(hits))
=============================================================================
