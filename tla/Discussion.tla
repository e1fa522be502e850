----------------------------- MODULE Discussion -----------------------------
(***************************************************************************)
(* Comments, replies and reactions of one document                         *)
(* (app/collab/comments.py, threads.py, reactions.py,                      *)
(* app/routers/comments.py, collab_extra.py).                              *)
(*                                                                         *)
(* A handler reads, decides and commits, and another may commit between.   *)
(* Texts, anchors and permissions are left out.                            *)
(***************************************************************************)
EXTENDS Naturals

CONSTANTS
    Comments,       \* comments, in the order they are posted
    Reactors,       \* a user with an emoji
    Posts           \* requests in flight at a time

ASSUME CommentsAssumption == Comments \subseteq Nat \ {0}

VARIABLES
    comment,   \* comment[c]: a comments row
    reaction,  \* reaction[x]: the comments x reacted to
    post,      \* requests in flight
    toggles,   \* history: parity of the toggles that committed
    crossed,   \* history: reactor and comment pairs toggled by two requests at once
    bereft     \* history: replies there or being written when their parent was deleted

talkvars == <<comment, reaction, post, toggles, crossed, bereft>>

NoComment == [row |-> "none"]
NoPost == [op |-> "idle"]
Visible(c) == comment[c].row = "live"
Top == 0

TalkInit ==
    /\ comment = [c \in Comments |-> NoComment]
    /\ reaction = [x \in Reactors |-> {}]
    /\ post = [r \in Posts |-> NoPost]
    /\ toggles = [x \in Reactors |-> [c \in Comments |-> 0]]
    /\ crossed = {} /\ bereft = {}

Starts(r, next) ==
    /\ post[r] = NoPost
    /\ post' = [post EXCEPT ![r] = next]
Done(r) == post' = [post EXCEPT ![r] = NoPost]

----------------------------------------------------------------------------
\* create_comment: a reply needs a parent that is not deleted.
AnyRow == {Top} \cup {c \in Comments : comment[c] # NoComment}
Parents == {Top} \cup {c \in Comments : Visible(c)}
Taken(c) == comment[c] # NoComment
            \/ \E q \in Posts : post[q].op = "create" /\ post[q].comment = c

ReadParent(r, c, parent) ==
    /\ ~Taken(c) /\ \A b \in Comments : b < c => Taken(b)
    /\ parent \in Parents
    /\ Starts(r, [op |-> "create", comment |-> c, parent |-> parent])
    /\ bereft' = bereft \ {c}
    /\ UNCHANGED <<comment, reaction, toggles, crossed>>

InsertComment(r) ==
    LET q == post[r]
    IN  /\ q.op = "create"
        /\ comment' = [comment EXCEPT ![q.comment] = [row |-> "live", parent |-> q.parent]]
        /\ Done(r)
        /\ UNCHANGED <<reaction, toggles, crossed, bereft>>

Replies(c) == {b \in Comments : comment[b] # NoComment /\ comment[b].parent = c}
Writing(c) == {b \in Comments : \E q \in Posts :
                   post[q].op = "create" /\ post[q].comment = b /\ post[q].parent = c}

\* Soft, and the replies stay.
DeleteComment(c) ==
    /\ Visible(c)
    /\ comment' = [comment EXCEPT ![c].row = "deleted"]
    /\ bereft' = bereft \cup Replies(c) \cup Writing(c)
    /\ UNCHANGED <<reaction, post, toggles, crossed>>

----------------------------------------------------------------------------
Toggling(x, c) == {r \in Posts : post[r].op = "toggle" /\ post[r].by = x
                                 /\ post[r].comment = c}

\* toggle_reaction reads whether the row is there.
ReadReaction(r, x, c) ==
    /\ Visible(c)
    /\ Starts(r, [op |-> "toggle", by |-> x, comment |-> c, there |-> c \in reaction[x]])
    /\ crossed' = IF Toggling(x, c) = {} THEN crossed ELSE crossed \cup {<<x, c>>}
    /\ UNCHANGED <<comment, reaction, toggles, bereft>>

OnlyAdds(q) == reaction[q.by] \cup {q.comment}
\* A second insert meets the unique constraint.
Toggled(q) == IF q.there THEN reaction[q.by] \ {q.comment}
              ELSE reaction[q.by] \cup {q.comment}

\* A delete goes by the row's key: the second of two deletes nothing, also if
\* the reaction is back by then.
Outrun(p, q) == q.there /\ p \in Toggling(q.by, q.comment) /\ post[p].there

WriteReaction(r) ==
    LET q == post[r]
    IN  /\ q.op = "toggle"
        /\ reaction' = [reaction EXCEPT ![q.by] = Toggled(q)]
        /\ toggles' = [toggles EXCEPT ![q.by][q.comment] =
                          IF <<q.by, q.comment>> \in crossed THEN 0 ELSE (@ + 1) % 2]
        /\ post' = [p \in Posts |-> IF p = r \/ Outrun(p, q) THEN NoPost ELSE post[p]]
        /\ UNCHANGED <<comment, crossed, bereft>>

PostDies(r) ==
    /\ post[r] # NoPost
    /\ Done(r)
    /\ UNCHANGED <<comment, reaction, toggles, crossed, bereft>>

TalkNext ==
    \/ \E r \in Posts, c \in Comments :
        \/ \E parent \in Comments \cup {Top} : ReadParent(r, c, parent)
        \/ \E x \in Reactors : ReadReaction(r, x, c)
    \/ \E r \in Posts : InsertComment(r) \/ WriteReaction(r) \/ PostDies(r)
    \/ \E c \in Comments : DeleteComment(c)

TalkSpec == TalkInit /\ [][TalkNext]_talkvars

----------------------------------------------------------------------------
(* build_comment_tree: what the threaded view shows *)

Listed == {c \in Comments : Visible(c)}
Deleted == {c \in Comments : comment[c].row = "deleted"}
ChildrenOf(above) == {c \in Listed : comment[c].parent \in above}
\* Comments under one of above, however deep: replies hang below these and those.
Below(above) ==
    {c \in Listed : \A S \in SUBSET Listed : ChildrenOf(above \cup S) \subseteq S => c \in S}
Threaded == Below({Top})

\* A reaction is there after an odd number of toggles, whatever else is posted,
\* unless the same user toggled it from two requests at once: a double click
\* leaves it on.
TogglesAddUp ==
    \A x \in Reactors, c \in Comments :
        <<x, c>> \notin crossed => (c \in reaction[x] <=> toggles[x][c] = 1)

\* The threaded view leaves out of the flat list what is below a deleted
\* comment, at any depth, and nothing else: no reply is lost to a cycle or to a
\* parent that never came.  A reply is directly below a deleted comment only if
\* it was there, or was being written, when that one was deleted: in the second
\* case its author never sees it in the thread.
ThreadsHideOnlyUnderDeleted ==
    /\ Threaded = Listed \ Below(Deleted)
    /\ \A c \in Listed : comment[c].parent \in Deleted => c \in bereft
============================================================================
