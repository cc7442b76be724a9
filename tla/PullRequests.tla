---------------------------- MODULE PullRequests ----------------------------
(***************************************************************************)
(* Pull requests from "feat" into "main" of one app: rows, reviews and     *)
(* branch rules (service/prs.rs, db/prs.rs), the head sync of a branch     *)
(* move (host/prs.rs) and the browser commits that move branches too       *)
(* (service/source.rs, host/web_commit.rs).                                *)
(*                                                                         *)
(* A commit is a number, 0 none; prHas[c] is the changes its tree holds.   *)
(* Every handler reads first and writes later: a request is its reads.     *)
(***************************************************************************)
EXTENDS Integers, Sequences, FiniteSets

CONSTANTS
    Users,        \* who opens, reviews and merges
    Requests,     \* request slots
    MaxPrs,       \* BOUND: pull requests
    MaxSha,       \* BOUND: commits
    MaxOps        \* BOUND: operations begun

Branches == {"main", "feat"}

VARIABLES
    prTip,     \* the branches' commits
    prHas,     \* the changes in each commit's tree
    prRows,    \* pull_request rows, by number
    prReviews, \* pr_review rows, in (created_at, id) order
    prNeed,    \* app_branch_rule.required_approvals
    prReq,     \* requests under way
    prLanded,  \* squash merges published: pull request, head, approvals needed
    prLeft     \* operations left

vars == <<prTip, prHas, prRows, prReviews, prNeed, prReq, prLanded, prLeft>>

(* A request's reads.  The approvals a merge by an admin needs are none.   *)
Quiet == [op |-> "none", pr |-> 0, by |-> CHOOSE u \in Users : TRUE, branch |-> "main", base |-> 0, head |-> 0,
          need |-> 0, pc |-> "idle"]

PrRows == [state : {"open", "closed", "merged"}, author : Users, head : 1 .. MaxSha, merge : 0 .. MaxSha]
PrReviewRows == [pr : 1 .. MaxPrs, by : Users, state : {"approved", "changes"}, sha : 1 .. MaxSha,
                 dismissed : BOOLEAN]
PrRequests == [op : {"none", "commit", "close", "reopen", "review", "merge"}, pr : 0 .. MaxPrs, by : Users,
               branch : Branches, base : 0 .. MaxSha, head : 0 .. MaxSha, need : 0 .. 2,
               pc : {"idle", "resolved", "counted", "published", "moved"}]

(* What the bounds must satisfy: somebody is there, and two commits are.   *)
Bounds ==
    /\ IsFiniteSet(Users) /\ Users # {}
    /\ MaxPrs \in Nat /\ MaxSha \in Nat /\ MaxSha >= 2 /\ MaxOps \in Nat

(* What a request holds on to: a row, the commits it read.                 *)
Holds(r) ==
    /\ r.op \in {"close", "reopen", "review", "merge"} => r.pr \in DOMAIN prRows
    /\ r.op \in {"review", "merge"} => r.head # 0
    /\ r.op = "merge" => r.base # 0
    /\ r.op = "commit" /\ r.pc = "moved" => r.head # 0
    /\ r.base <= Len(prHas) /\ r.head <= Len(prHas)

TypeOK ==
    /\ prHas \in Seq(SUBSET (1 .. MaxSha)) /\ Len(prHas) <= MaxSha
    /\ prTip \in [Branches -> 0 .. Len(prHas)]
    /\ prRows \in Seq(PrRows) /\ Len(prRows) <= MaxPrs
    /\ prReviews \in Seq(PrReviewRows)
    /\ prNeed \in 0 .. 2
    /\ prReq \in [Requests -> PrRequests] /\ \A q \in Requests : Holds(prReq[q])
    /\ prLeft \in 0 .. MaxOps

(* Both branches have been pushed.                                        *)
Init ==
    /\ prTip = [b \in Branches |-> IF b = "main" THEN 1 ELSE 2]
    /\ prHas = <<{1}, {1, 2}>>
    /\ prRows = << >> /\ prReviews = << >> /\ prNeed = 0
    /\ prReq = [q \in Requests |-> Quiet]
    /\ prLanded = {}
    /\ prLeft = MaxOps

At(q, op, pc) == prReq[q].op = op /\ prReq[q].pc = pc
Done(q) == prReq' = [prReq EXCEPT ![q] = Quiet]
NewSha == Len(prHas) + 1
CanCommit == Len(prHas) < MaxSha
Begins == prLeft > 0 /\ prLeft' = prLeft - 1

-----------------------------------------------------------------------------
(* Head sync.                                                              *)

(* move_heads then dismiss_reviews_before, for every open pull request     *)
(* whose head is the branch.                                               *)
Follows(n, b, sha) == b = "feat" /\ prRows[n].state = "open" /\ prRows[n].head # sha
OnBranchMoved(b, sha) ==
    /\ prRows' = [n \in DOMAIN prRows |-> IF Follows(n, b, sha) THEN [prRows[n] EXCEPT !.head = sha] ELSE prRows[n]]
    /\ prReviews' = [i \in DOMAIN prReviews |->
                        IF (\E n \in DOMAIN prRows : Follows(n, b, sha))
                           /\ prRows[prReviews[i].pr].state = "open" /\ prReviews[i].sha # sha
                        THEN [prReviews[i] EXCEPT !.dismissed = TRUE] ELSE prReviews[i]]

(* A push, forced or not, moves a branch and then the heads, or deletes    *)
(* it, which is not followed.                                              *)
Push ==
    \/ /\ CanCommit /\ Begins
       /\ \E b \in Branches, keep \in BOOLEAN, synced \in BOOLEAN :
              /\ prTip' = [prTip EXCEPT ![b] = NewSha]
              /\ prHas' = Append(prHas, {NewSha} \cup (IF keep /\ prTip[b] # 0 THEN prHas[prTip[b]] ELSE {}))
              /\ IF synced THEN OnBranchMoved(b, NewSha) ELSE UNCHANGED <<prRows, prReviews>>
       /\ UNCHANGED <<prNeed, prReq, prLanded>>
    \/ /\ prTip["feat"] # 0 /\ Begins
       /\ prTip' = [prTip EXCEPT !["feat"] = 0]
       /\ UNCHANGED <<prHas, prRows, prReviews, prNeed, prReq, prLanded>>

(* A browser commit reads the tip it grows from ...                        *)
CommitBegin(q) ==
    /\ prReq[q].pc = "idle" /\ Begins
    /\ \E b \in Branches :
           prReq' = [prReq EXCEPT ![q] = [Quiet EXCEPT !.op = "commit", !.branch = b, !.pc = "resolved",
                                           !.base = prTip[b], !.head = IF prTip[b] # 0 THEN prTip[b] ELSE prTip["main"]]]
    /\ UNCHANGED <<prTip, prHas, prRows, prReviews, prNeed, prLanded>>

(* ... and publishes if the tip is still that one; then the heads follow.  *)
CommitPublish(q) ==
    /\ At(q, "commit", "resolved")
    /\ \/ /\ CanCommit /\ prTip[prReq[q].branch] = prReq[q].base
          /\ prTip' = [prTip EXCEPT ![prReq[q].branch] = NewSha]
          /\ prHas' = Append(prHas, {NewSha} \cup (IF prReq[q].head = 0 THEN {} ELSE prHas[prReq[q].head]))
          /\ prReq' = [prReq EXCEPT ![q] = [@ EXCEPT !.pc = "moved", !.head = NewSha]]
       \/ Done(q) /\ UNCHANGED <<prTip, prHas>>
    /\ UNCHANGED <<prRows, prReviews, prNeed, prLanded, prLeft>>

CommitFollow(q) ==
    /\ At(q, "commit", "moved")
    /\ (OnBranchMoved(prReq[q].branch, prReq[q].head) \/ UNCHANGED <<prRows, prReviews>>)
    /\ Done(q)
    /\ UNCHANGED <<prTip, prHas, prNeed, prLanded, prLeft>>

-----------------------------------------------------------------------------
(* Rows, reviews and rules.                                                *)

OpenPair == \E n \in DOMAIN prRows : prRows[n].state = "open"

(* insert_pr at next_number.                                               *)
InsertPr(u) == prRows' = Append(prRows, [state |-> "open", author |-> u, head |-> prTip["feat"], merge |-> 0])

(* close_pr, reopen_pr and merge_pr: an UPDATE by id, whatever the row's   *)
(* state has become.                                                       *)
SetState(n, state, merge) == prRows' = [prRows EXCEPT ![n] = [@ EXCEPT !.state = state, !.merge = merge]]

InsertReview(q, state) ==
    prReviews' = Append(prReviews, [pr |-> prReq[q].pr, by |-> prReq[q].by, state |-> state,
                                    sha |-> prReq[q].head, dismissed |-> FALSE])

(* create: both branches exist, the head holds something main does not,    *)
(* and no open pull request for the pair (nor past the unique index).      *)
Create ==
    /\ Len(prRows) < MaxPrs /\ ~OpenPair /\ Begins
    /\ prTip["feat"] # 0 /\ prTip["main"] # 0 /\ ~(prHas[prTip["feat"]] \subseteq prHas[prTip["main"]])
    /\ \E u \in Users : InsertPr(u)
    /\ UNCHANGED <<prTip, prHas, prReviews, prNeed, prReq, prLanded>>

(* Every other handler reads the row, the rules and the branches first.    *)
(* The author or an admin closes and reopens, who may push but not the     *)
(* author reviews, who may push merges.                                    *)
Read(q) ==
    /\ prReq[q].pc = "idle" /\ Begins
    /\ \E op \in {"close", "reopen", "review", "merge"}, n \in DOMAIN prRows, u \in Users, admin \in BOOLEAN :
           /\ u = prRows[n].author <=> op # "review"
           /\ prRows[n].state = IF op = "reopen" THEN "closed" ELSE "open"
           /\ op # "close" => prTip["feat"] # 0
           /\ op = "reopen" => ~OpenPair
           /\ op = "merge" => prTip["main"] # 0
           /\ prReq' = [prReq EXCEPT ![q] = [Quiet EXCEPT !.op = op, !.pr = n, !.by = u, !.pc = "resolved",
                                              !.base = prTip["main"], !.head = prTip["feat"],
                                              !.need = IF admin THEN 0 ELSE prNeed]]
    /\ UNCHANGED <<prTip, prHas, prRows, prReviews, prNeed, prLanded>>

(* The open pair is unique, for a reopen that raced another pull request.  *)
Update(q) ==
    /\ prReq[q].op \in {"close", "reopen"} /\ prReq[q].pc = "resolved"
    /\ IF prReq[q].op = "reopen" /\ OpenPair THEN UNCHANGED prRows
       ELSE SetState(prReq[q].pr, IF prReq[q].op = "close" THEN "closed" ELSE "open", prRows[prReq[q].pr].merge)
    /\ Done(q)
    /\ UNCHANGED <<prTip, prHas, prReviews, prNeed, prLanded, prLeft>>

Review(q) ==
    /\ At(q, "review", "resolved")
    /\ \E s \in {"approved", "changes"} : InsertReview(q, s)
    /\ Done(q)
    /\ UNCHANGED <<prTip, prHas, prRows, prNeed, prLanded, prLeft>>

SetRules ==
    /\ Begins
    /\ prNeed' \in 0 .. 2
    /\ UNCHANGED <<prTip, prHas, prRows, prReviews, prReq, prLanded>>

-----------------------------------------------------------------------------
(* Merge.                                                                  *)

(* A reviewer's latest review of the pull request.                         *)
Latest(n, u) ==
    LET own == {i \in DOMAIN prReviews : prReviews[i].pr = n /\ prReviews[i].by = u}
    IN CHOOSE i \in own : \A j \in own : j <= i

(* Mutant: approvals of any commit count.                                  *)
AnyApproval(n, head) ==
    Cardinality({u \in Users \ {prRows[n].author} :
        \E i \in DOMAIN prReviews : prReviews[i].pr = n /\ prReviews[i].by = u /\ prReviews[Latest(n, u)].state = "approved"})

(* counted_approvals: the latest review of each reviewer but the author,   *)
(* approved, not dismissed, at this head.                                  *)
CountedApprovals(n, head) ==
    Cardinality({u \in Users \ {prRows[n].author} :
        /\ \E i \in DOMAIN prReviews : prReviews[i].pr = n /\ prReviews[i].by = u
        /\ LET r == prReviews[Latest(n, u)] IN r.state = "approved" /\ ~r.dismissed /\ r.sha = head})

(* The approval gate, admins aside, counted at the head resolved before.   *)
MergeCount(q) ==
    /\ At(q, "merge", "resolved")
    /\ IF CountedApprovals(prReq[q].pr, prReq[q].head) < prReq[q].need
       THEN Done(q) ELSE prReq' = [prReq EXCEPT ![q].pc = "counted"]
    /\ UNCHANGED <<prTip, prHas, prRows, prReviews, prNeed, prLanded, prLeft>>

Squash(q) ==
    /\ prTip' = [prTip EXCEPT !["main"] = NewSha]
    /\ prHas' = Append(prHas, prHas[prReq[q].base] \cup prHas[prReq[q].head])
    /\ prLanded' = prLanded \cup {[pr |-> prReq[q].pr, head |-> prReq[q].head,
                                   need |-> prReq[q].need]}
    /\ prReq' = [prReq EXCEPT ![q] = [@ EXCEPT !.pc = "published", !.base = NewSha]]

(* Mutant: publish_ref without the compare-and-swap.                       *)
MergePublishForce(q) ==
    /\ At(q, "merge", "counted")
    /\ IF CanCommit THEN Squash(q) ELSE Done(q) /\ UNCHANGED <<prTip, prHas, prLanded>>
    /\ UNCHANGED <<prRows, prReviews, prNeed, prLeft>>

(* The merge commit's only parent is the base resolved before: published   *)
(* while main still is that commit; conflicts and a moved tip end it.      *)
MergePublish(q) ==
    /\ At(q, "merge", "counted")
    /\ \/ CanCommit /\ prTip["main"] = prReq[q].base /\ Squash(q)
       \/ Done(q) /\ UNCHANGED <<prTip, prHas, prLanded>>
    /\ UNCHANGED <<prRows, prReviews, prNeed, prLeft>>

(* merge_pr writes the row by id; the head branch is deleted on request,   *)
(* if it is still the merged commit.  The runner may die in between.       *)
MergeRow(q) ==
    /\ At(q, "merge", "published")
    /\ \/ SetState(prReq[q].pr, "merged", prReq[q].base)
       \/ UNCHANGED prRows
    /\ \E delete \in BOOLEAN :
           prTip' = IF delete /\ prTip["feat"] = prReq[q].head THEN [prTip EXCEPT !["feat"] = 0] ELSE prTip
    /\ Done(q)
    /\ UNCHANGED <<prHas, prReviews, prNeed, prLanded, prLeft>>

RequestStep(q) ==
    \/ CommitBegin(q) \/ CommitPublish(q) \/ CommitFollow(q) \/ Read(q) \/ Update(q) \/ Review(q)
    \/ MergeCount(q) \/ MergePublish(q) \/ MergeRow(q)

Next == Push \/ Create \/ SetRules \/ \E q \in Requests : RequestStep(q)

Spec == Init /\ [][Next]_vars

-----------------------------------------------------------------------------
(* Neither a merge nor a browser commit drops what main held when it was   *)
(* published, however long ago it read main: its compare-and-swap fails    *)
(* instead (service/prs.rs, merge: "the base branch moved; retry").        *)
MainNeverLoses ==
    [][\A q \in Requests : prReq'[q].pc \in {"published", "moved"} /\ prReq'[q].pc # prReq[q].pc =>
          prTip["main"] = 0 \/ prHas[prTip["main"]] \subseteq prHas'[prTip'["main"]]]_vars

(* What a merge put on main was approved as it is: for the very commit     *)
(* that was merged as many others than the author, as the rules in force   *)
(* when the merge was asked for need, have an approving review, whatever   *)
(* was pushed to the head in between.                                      *)
Approvers(n, head) ==
    {u \in Users \ {prRows[n].author} :
        \E i \in DOMAIN prReviews : /\ prReviews[i].pr = n /\ prReviews[i].by = u
                                    /\ prReviews[i].state = "approved" /\ prReviews[i].sha = head}
MergedWasApproved == \A m \in prLanded : Cardinality(Approvers(m.pr, m.head)) >= m.need

(* Why: a merge that passed the gate keeps its approvals while it goes on, *)
(* for a review is never taken back, only dismissed or followed by another.*)
ApprovedInv ==
    /\ MergedWasApproved
    /\ \A m \in prLanded : m.pr \in DOMAIN prRows /\ m.need \in Nat
    /\ \A q \in Requests :
           At(q, "merge", "counted") => Cardinality(Approvers(prReq[q].pr, prReq[q].head)) >= prReq[q].need
=============================================================================
