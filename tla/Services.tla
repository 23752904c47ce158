------------------------------ MODULE Services ------------------------------
(***************************************************************************)
(* The services around the turns: identity links and accounts, the web     *)
(* chat, the model roles, the feedback on replies, and the two nightly     *)
(* jobs that keep what was said (memory, insights).  They share no         *)
(* variable, so one instance explores each of them alone: `part` picks one *)
(* at the start, the others stay as they are.  Some come in several sizes: *)
(* the web chat with two posts and no tab, with a tab whose reads fail,    *)
(* with a tab that loses its stream; the model roles with requests that    *)
(* cross, or more of them one by one; the feedback with two reactions, or  *)
(* with two nights and a mishap.                                           *)
(***************************************************************************)
EXTENDS ServiceRecords

CONSTANTS
  Posts, MaxNews, MaxLosses, MaxLoads,    \* of WebChat
  MaxCrossing,      \* bound on the requests about roles that may cross
  MaxDays,          \* bounds on the runs, where there are several reactions,
  MaxNightly        \* and on the reactions, where there are several runs and mishaps

VARIABLES
  part,
  \* WebChat
  name, rows, aged, deleting, post, asked, since, window, queue, turn, reply, active,
  connected, timer, loads, shown, news, drops, chosen, overlapped, again, behind, overtaken

chatVars ==
  <<name, rows, aged, deleting, post, asked, since, window, queue, turn, reply, active,
    connected, timer, loads, shown, news, drops, chosen, overlapped, again, behind, overtaken>>
serviceVars ==
  <<part, linkVars, chatVars, rolesVars, feedbackVars, memoryVars, insightVars>>

CH == INSTANCE WebChat WITH MaxDrops <- MaxLosses

\* No post is 0, which stands for none.
ASSUME ChatAssumption == 0 \notin Posts /\ {MaxNews, MaxLosses, MaxLoads} \subseteq Nat

Parts ==
  {"links", "chat", "tab", "drops", "crossing roles", "roles", "feedback", "nights",
   "memory", "insights"}

Init ==
  /\ part \in Parts
  /\ IL!Init /\ (part # "links" => links = {})
  /\ CH!Init /\ MR!Init
  /\ part \notin {"roles", "crossing roles"} => settings.mode = "chat"
  /\ FB!Init /\ MN!Init /\ HI!Init

Next ==
  /\ UNCHANGED part
  /\ \/ part = "links" /\ IL!Next
        /\ UNCHANGED <<chatVars, rolesVars, feedbackVars, memoryVars, insightVars>>
     \/ /\ \/ part = "chat" /\ CH!Next /\ loads' = <<>> /\ news' + drops' <= 1
           \/ /\ \/ part = "tab" /\ CH!Next /\ connected'
                 \/ part = "drops" /\ CH!Next /\ Len(loads') <= 1
              /\ news' = 0 /\ \A p \in Posts \ {1} : post'[p] = "none"
        /\ UNCHANGED <<linkVars, rolesVars, feedbackVars, memoryVars, insightVars>>
     \/ /\ \/ part = "crossing roles" /\ MR!Next /\ made' <= MaxCrossing
           \/ part = "roles" /\ MR!Next /\ \A r \in MR!Requests \ {1} : job'[r] = MR!Idle
        /\ UNCHANGED <<linkVars, chatVars, feedbackVars, memoryVars, insightVars>>
     \/ /\ \/ /\ part = "feedback" /\ FB!Next /\ runs' <= MaxDays /\ mishaps' = 0
              /\ \A p \in FB!Slots \ {1} : press'[p] = FB!NoPress
           \/ part = "nights" /\ FB!Next /\ reactions' <= MaxNightly
        /\ UNCHANGED <<linkVars, chatVars, rolesVars, memoryVars, insightVars>>
     \/ part = "memory" /\ MN!Next
        /\ UNCHANGED <<linkVars, chatVars, rolesVars, feedbackVars, insightVars>>
     \/ part = "insights" /\ HI!Next
        /\ UNCHANGED <<linkVars, chatVars, rolesVars, feedbackVars, memoryVars>>

Spec == Init /\ [][Next]_serviceVars

-----------------------------------------------------------------------------
\* Links join what was joined and part what was parted, and an admin stays (with the
\* types of IdentityLinks).
LinksKept ==
  part = "links" =>
    IL!LinkTypeOK /\ IL!LinksMakeSense /\ IL!LinksAsTold /\ IL!AdminStays

\* The thread keeps its posts, answers and name, and the tab shows them (with the
\* types of WebChat).
ChatKept ==
  part \in {"chat", "tab", "drops"} =>
    /\ CH!ChatTypeOK /\ CH!ShownIsStored /\ CH!ThinkingIsRunning
    /\ CH!ChosenNameStays /\ CH!PostsInOrder /\ CH!RepliesLand

\* A repointed role keeps no model its backend does not list and loses none it does,
\* and the caches tell the rows (with the types of ModelRoles).
RolesKept ==
  part \in {"crossing roles", "roles"} => MR!RolesTypeOK /\ MR!RolesKept

\* An answer to a reaction stands, can be given, and is learnt from once (with the
\* types of Feedback).
FeedbackKept ==
  part \in {"feedback", "nights"} => FB!FeedbackTypeOK /\ FB!FeedbackKept

\* A fact that was noted is queued, on its way, or in a document, and one the
\* operator removed does not come back by itself (with the types of MemoryNight).
FactsAsTold == part = "memory" => MN!MemoryTypeOK /\ MN!FactsAsTold

\* An hour that is owed a score is above the watermark, and a roll-up is built
\* from the rows there are (with the types of Insights).
InsightsComplete == part = "insights" => HI!InsightsTypeOK /\ HI!InsightsComplete

=============================================================================
