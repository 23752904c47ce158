---------------------------- MODULE IdentityLinks ----------------------------
(***************************************************************************)
(* The links that say which identities are one person, and the accounts    *)
(* they lead to: self-link codes (core/features/accounts/server/self-link.ts),*)
(* the profile's unlink (profile.ts), the operator's links                 *)
(* (core/features/person-links/server), and the management of accounts     *)
(* (accounts/server/service.ts).  Each handler reads, decides, and writes  *)
(* in statements of their own: others run in between.  The reads that      *)
(* follow each other are one step here, every write is another.            *)
(***************************************************************************)
EXTENDS Naturals, FiniteSets

CONSTANTS
  Accounts, Identities, \* the platform identities that may be linked to accounts
  Befores,              \* the members a link may have at the start
  AtOnce,               \* how many requests may be under way together
  MaxRequests           \* bound on the requests that are made

Requests == 1..AtOnce
Refs == Accounts \cup Identities   \* an account is also its own web identity
LinkIds == 1..(MaxRequests + 1)   \* the last is a link there was before
Codes == 1..MaxRequests

VARIABLES
  role,       \* [account |-> "admin", "user", or "none" when the row is gone]
  active,
  assistants, \* the accounts that own assistants
  docs,       \* the refs with a memory document
  linkOf,     \* [ref |-> the link it is a member of, or 0]
  links,      \* the link rows
  codes,      \* the code rows: [code |-> [account, used], or NoCode]
  run,        \* [request |-> what it has read, and its next write]
  made,       \* requests made
  \* What the properties remember.
  operated,   \* the links an operator wrote
  parted,     \* <<account, identity>>: unlinked by the account, not joined since
  joined,     \* [code |-> the identities it linked]
  told,       \* [request |-> its last answer was "linked"]
  crossed     \* the matters two requests about them were under way together

store == <<role, active, assistants, docs, linkOf, links, codes>>
seen == <<operated, parted, joined, crossed>>
linkVars == <<store, run, made, seen, told>>

NoCode == [account |-> "none", used |-> FALSE]
Free == [op |-> "none"]

Init ==
  /\ role = [a \in Accounts |-> "admin"]
  /\ assistants = Accounts /\ docs = Refs
  /\ \/ /\ linkOf = [r \in Refs |-> 0] /\ links = {}
        /\ active = [a \in Accounts |-> TRUE]
     \/ \E s \in Befores :
        /\ active \in {[a \in Accounts |-> TRUE], [a \in Accounts |-> a \notin s]}
        /\ links = {MaxRequests + 1}
        /\ linkOf = [r \in Refs |-> IF r \in s THEN MaxRequests + 1 ELSE 0]
  /\ codes = [c \in Codes |-> NoCode]
  /\ run = [q \in Requests |-> Free] /\ made = 0
  /\ operated = {} /\ parted = {} /\ joined = [c \in Codes |-> {}]
  /\ told = [q \in Requests |-> FALSE] /\ crossed = {}

-----------------------------------------------------------------------------
\* The matters a request is about.
About(op) ==
  CASE op = "mint" -> {"codes"}
    [] op = "redeem" -> {"codes", "links"}
    [] op \in {"unlink", "create", "edit"} -> {"links"}
    [] op = "patch" -> {"accounts"}
    [] op = "delete" -> {"accounts", "links"}
    [] op = "none" -> {}

\* A request comes in: it has done its reads and is about to write.  What it creates
\* gets its number.
Begin(q, r) ==
  /\ run[q] = Free /\ \A o \in 1..(q - 1) : run[o] # Free
  /\ made < MaxRequests
  /\ made' = made + 1
  /\ run' = [run EXCEPT ![q] = r]
  /\ told' = [told EXCEPT ![q] = FALSE]
  /\ crossed' = crossed \cup
       (About(r.op) \cap UNION {About(run[o].op) : o \in Requests \ {q}})

Then(q, at) == run' = [run EXCEPT ![q].at = at]
End(q) == run' = [run EXCEPT ![q] = Free]
At(q, op, at) == run[q].op = op /\ run[q].at = at

Exists(a) == role[a] # "none"
SignedIn(a) == Exists(a) /\ active[a]
Admin(a) == SignedIn(a) /\ role[a] = "admin"
Members(l) == {r \in Refs : linkOf[r] = l}

\* insertPersonLink and replacePersonLinkMembers, each one transaction: an identity
\* of another link breaks the unique index, and nothing is written.
Claimed(l, s) == \E r \in s : linkOf[r] \notin {0, l}

Put(l, s) ==
  /\ links' = links \cup {l}
  /\ linkOf' = [r \in Refs |-> IF r \in s THEN l ELSE IF linkOf[r] = l THEN 0 ELSE linkOf[r]]

Drop(l) ==
  /\ links' = links \ {l}
  /\ linkOf' = [r \in Refs |-> IF linkOf[r] = l THEN 0 ELSE linkOf[r]]

\* Two members or more are written, one is no link.
Leave(l, s) == IF l \notin links THEN UNCHANGED <<links, linkOf>>
               ELSE IF Cardinality(s) < 2 THEN Drop(l) ELSE Put(l, s)

Parts(s) == parted \ {p \in Accounts \X Identities : {p[1], p[2]} \subseteq s}

-----------------------------------------------------------------------------
\* mintLinkCode: the unused codes of the account go, then the new one comes.
Retire(a) == codes' = [c \in Codes |-> IF codes[c].account = a /\ ~codes[c].used
                                       THEN NoCode ELSE codes[c]]

Mint(q, a) ==
  /\ SignedIn(a)
  /\ Begin(q, [op |-> "mint", at |-> "insert", id |-> made + 1, account |-> a])
  /\ Retire(a)
  /\ UNCHANGED <<role, active, assistants, docs, linkOf, links, operated, parted, joined>>

MintInsert(q) ==
  /\ At(q, "mint", "insert")
  /\ \/ /\ Exists(run[q].account)
        /\ codes' = [codes EXCEPT ![run[q].id] = [account |-> run[q].account, used |-> FALSE]]
     \* The account is gone: the row it refers to.
     \/ ~Exists(run[q].account) /\ UNCHANGED codes
  /\ End(q)
  /\ UNCHANGED <<role, active, assistants, docs, linkOf, links, made, seen, told>>

\* A code runs out.
Expire(c) ==
  /\ codes[c] # NoCode /\ ~codes[c].used
  /\ codes' = [codes EXCEPT ![c] = NoCode]
  /\ UNCHANGED <<role, active, assistants, docs, linkOf, links, run, made, seen, told>>

\* redeemLinkCode for a code that is live and an account that is active.
Live(c) == codes[c] # NoCode /\ ~codes[c].used

\* Mutation: the account of another person is not looked for.
NoOtherAccount(s, a) == FALSE

OtherAccount(s, a) == \E b \in Accounts \ {a} : b \in s

Redeem(q, i, c) ==
  LET a == codes[c].account IN
  /\ Live(c) /\ SignedIn(a)
  /\ \/ \* Linked already: the code burns.
        /\ linkOf[i] # 0 /\ linkOf[i] = linkOf[a]
        /\ Begin(q, [op |-> "redeem", at |-> "burn", code |-> c])
     \/ \* One of the two has a link: the other joins it, unless the sender is the
        \* identity of somebody else.
        /\ (linkOf[i] = 0) # (linkOf[a] = 0)
        /\ ~(linkOf[i] # 0 /\ OtherAccount(Members(linkOf[i]), a))
        /\ LET l == IF linkOf[i] # 0 THEN linkOf[i] ELSE linkOf[a] IN
           Begin(q, [op |-> "redeem", at |-> "join", code |-> c, ref |-> i, account |-> a,
                     link |-> l, members |-> Members(l) \cup {i, a}])
     \/ \* None has.
        /\ linkOf[i] = 0 /\ linkOf[a] = 0
        /\ Begin(q, [op |-> "redeem", at |-> "insert", id |-> made + 1,
                     code |-> c, ref |-> i, account |-> a])
  /\ UNCHANGED <<store, operated, parted, joined>>

Linked(q, s) ==
  /\ parted' = Parts(s)
  /\ joined' = [joined EXCEPT ![run[q].code] = @ \cup {run[q].ref}]
  /\ Then(q, "burn")
  /\ told' = [told EXCEPT ![q] = TRUE]

\* A link that is gone by then is not written, and the answer is the same.
RedeemJoin(q) ==
  /\ At(q, "redeem", "join")
  /\ \/ /\ run[q].link \in links /\ ~Claimed(run[q].link, run[q].members)
        /\ Put(run[q].link, run[q].members)
        /\ Linked(q, run[q].members)
     \/ /\ run[q].link \notin links
        /\ Linked(q, {}) /\ UNCHANGED <<links, linkOf>>
     \/ /\ run[q].link \in links /\ Claimed(run[q].link, run[q].members)
        /\ End(q) /\ UNCHANGED <<links, linkOf, parted, joined, told>>
  /\ UNCHANGED <<role, active, assistants, docs, codes, made, operated, crossed>>

RedeemInsert(q) ==
  LET s == {run[q].ref, run[q].account} IN
  /\ At(q, "redeem", "insert")
  /\ \/ /\ ~Claimed(0, s)
        /\ Put(run[q].id, s) /\ Linked(q, s)
     \/ /\ Claimed(0, s)
        /\ End(q) /\ UNCHANGED <<links, linkOf, parted, joined, told>>
  /\ UNCHANGED <<role, active, assistants, docs, codes, made, operated, crossed>>

Burned(c) == codes' = IF codes[c] = NoCode THEN codes ELSE [codes EXCEPT ![c].used = TRUE]

RedeemBurn(q) ==
  /\ At(q, "redeem", "burn")
  /\ Burned(run[q].code)
  /\ End(q)
  /\ UNCHANGED <<role, active, assistants, docs, linkOf, links, made, seen, told>>

-----------------------------------------------------------------------------
\* unlinkOwnIdentity.
Unlink(q, a, i) ==
  /\ SignedIn(a) /\ linkOf[i] # 0 /\ linkOf[i] = linkOf[a]
  /\ Begin(q, [op |-> "unlink", at |-> "write", account |-> a, ref |-> i,
               link |-> linkOf[i], members |-> Members(linkOf[i]) \ {i}])
  /\ UNCHANGED <<store, operated, parted, joined>>

UnlinkWrite(q) ==
  LET r == run[q] IN
  /\ At(q, "unlink", "write")
  /\ \/ /\ r.link \notin links \/ Cardinality(r.members) < 2 \/ ~Claimed(r.link, r.members)
        /\ Leave(r.link, r.members)
        /\ parted' = parted \cup {<<r.account, r.ref>>}
     \/ /\ Cardinality(r.members) >= 2 /\ Claimed(r.link, r.members) /\ r.link \in links
        /\ UNCHANGED <<links, linkOf, parted>>
  /\ End(q)
  /\ UNCHANGED <<role, active, assistants, docs, codes, made, operated, joined, crossed, told>>

\* createLink and editLink of the operator: unclaimed when it looks.
Create(q, s) ==
  /\ Cardinality(s) >= 2 /\ ~Claimed(0, s)
  /\ Begin(q, [op |-> "create", at |-> "write", id |-> made + 1, members |-> s])
  /\ UNCHANGED <<store, operated, parted, joined>>

Edit(q, l, s) ==
  /\ l \in links /\ Cardinality(s) >= 2 /\ ~Claimed(l, s)
  /\ Begin(q, [op |-> "edit", at |-> "write", link |-> l, members |-> s])
  /\ UNCHANGED <<store, operated, parted, joined>>

OperatorWrite(q) ==
  LET r == run[q]
      l == IF r.op = "create" THEN r.id ELSE r.link IN
  /\ r.op \in {"create", "edit"}
  /\ \/ /\ ~Claimed(l, r.members) /\ (r.op = "edit" => l \in links)
        /\ Put(l, r.members)
        /\ operated' = operated \cup {l} /\ parted' = Parts(r.members)
     \/ /\ Claimed(l, r.members) \/ (r.op = "edit" /\ l \notin links)
        /\ UNCHANGED <<links, linkOf, operated, parted>>
  /\ End(q)
  /\ UNCHANGED <<role, active, assistants, docs, codes, made, joined, crossed, told>>

\* removeLink deletes by the id.
RemoveLink(l) ==
  /\ l \in links /\ made < MaxRequests
  /\ made' = made + 1
  /\ Drop(l)
  /\ crossed' = crossed \cup ({"links"} \cap UNION {About(run[o].op) : o \in Requests})
  /\ UNCHANGED <<role, active, assistants, docs, codes, run, operated, parted, joined, told>>

-----------------------------------------------------------------------------
\* patchAccount: an admin changes the role or the activity of another account.
LastAdmin(a) == Admin(a) /\ \A b \in Accounts \ {a} : ~Admin(b)

Patch(q, by, a, newRole, newActive) ==
  /\ Admin(by) /\ Exists(a) /\ by # a
  /\ newRole # role[a] \/ newActive # active[a]
  /\ newRole = role[a] \/ newActive = active[a]   \* one of the two at a time
  /\ (newRole = "user" \/ ~newActive) => ~LastAdmin(a)
  /\ Begin(q, [op |-> "patch", at |-> "write", account |-> a,
               role |-> newRole, active |-> newActive, changes |-> newRole # role[a]])
  /\ UNCHANGED <<store, operated, parted, joined>>

PatchWrite(q) ==
  LET r == run[q] IN
  /\ At(q, "patch", "write")
  /\ role' = IF r.changes /\ Exists(r.account) THEN [role EXCEPT ![r.account] = r.role] ELSE role
  /\ active' = IF r.changes THEN active ELSE [active EXCEPT ![r.account] = r.active]
  /\ End(q)
  /\ UNCHANGED <<assistants, docs, linkOf, links, codes, made, seen, told>>

\* deleteAccountHard of an account that is deactivated: its assistants and the memory
\* of its person go, then its place in the link, then the row and its codes.
DeleteHard(q, by, a) ==
  /\ Admin(by) /\ by # a /\ Exists(a) /\ ~active[a]
  /\ Begin(q, [op |-> "delete", at |-> "link", account |-> a, link |-> linkOf[a],
               members |-> IF linkOf[a] = 0 THEN {} ELSE Members(linkOf[a]) \ {a}])
  /\ assistants' = assistants \ {a}
  /\ docs' = docs \ ({a} \cup (IF linkOf[a] = 0 THEN {} ELSE Members(linkOf[a])))
  /\ UNCHANGED <<role, active, linkOf, links, codes, operated, parted, joined>>

DeleteLink(q) ==
  LET r == run[q] IN
  /\ At(q, "delete", "link")
  /\ \/ /\ r.link = 0
        /\ UNCHANGED <<links, linkOf>> /\ Then(q, "row")
     \/ /\ r.link # 0
        /\ r.link \notin links \/ Cardinality(r.members) < 2 \/ ~Claimed(r.link, r.members)
        /\ Leave(r.link, r.members) /\ Then(q, "row")
     \/ \* The write fails: the account stays, without its assistants and memory.
        /\ r.link \in links /\ Cardinality(r.members) >= 2 /\ Claimed(r.link, r.members)
        /\ UNCHANGED <<links, linkOf>> /\ End(q)
  /\ UNCHANGED <<role, active, assistants, docs, codes, made, seen, told>>

DeleteRow(q) ==
  LET a == run[q].account IN
  /\ At(q, "delete", "row")
  /\ role' = [role EXCEPT ![a] = "none"] /\ active' = [active EXCEPT ![a] = FALSE]
  /\ codes' = [c \in Codes |-> IF codes[c].account = a THEN NoCode ELSE codes[c]]
  /\ End(q)
  /\ UNCHANGED <<assistants, docs, linkOf, links, made, seen, told>>

-----------------------------------------------------------------------------
Next ==
  \/ \E q \in Requests :
       \/ \E a \in Accounts : Mint(q, a)
       \/ \E i \in Identities, c \in Codes : Redeem(q, i, c)
       \/ \E a \in Accounts, i \in Identities : Unlink(q, a, i)
       \/ \E s \in SUBSET Refs : Create(q, s) \/ \E l \in LinkIds : Edit(q, l, s)
       \/ \E by, a \in Accounts, r \in {"admin", "user"}, on \in BOOLEAN :
            Patch(q, by, a, r, on)
       \/ \E by, a \in Accounts : DeleteHard(q, by, a)
       \/ MintInsert(q) \/ RedeemJoin(q) \/ RedeemInsert(q) \/ RedeemBurn(q)
       \/ UnlinkWrite(q) \/ OperatorWrite(q) \/ PatchWrite(q) \/ DeleteLink(q) \/ DeleteRow(q)
  \/ \E c \in Codes : Expire(c)
  \/ \E l \in LinkIds : RemoveLink(l)

-----------------------------------------------------------------------------
LinkTypeOK ==
  /\ role \in [Accounts -> {"admin", "user", "none"}] /\ active \in [Accounts -> BOOLEAN]
  /\ assistants \subseteq Accounts /\ docs \subseteq Refs
  /\ linkOf \in [Refs -> LinkIds \cup {0}] /\ links \subseteq LinkIds
  /\ \A r \in Refs : linkOf[r] # 0 => linkOf[r] \in links
  /\ made \in 0..MaxRequests

\* However requests cross: a link joins two identities or more, and only an operator
\* makes one person of two accounts.
LinksMakeSense ==
  \A l \in links :
    /\ Cardinality(Members(l)) >= 2
    /\ l \notin operated => Cardinality(Members(l) \cap Accounts) <= 1

\* While no two requests about it cross: an identity its owner unlinked stays out
\* until it is joined again, a code links one identity and is the only live one of
\* its account, and an account that is gone is in no link.
LinksAsTold ==
  /\ "links" \notin crossed =>
       /\ \A p \in parted : linkOf[p[1]] = 0 \/ linkOf[p[2]] # linkOf[p[1]]
       /\ \A a \in Accounts : ~Exists(a) => linkOf[a] = 0 \/ linkOf[a] \in operated
       /\ \A q \in Requests : told[q] /\ run[q] # Free /\ run[q].op = "redeem" =>
            linkOf[run[q].ref] # 0 /\ linkOf[run[q].ref] = linkOf[run[q].account]
  /\ "codes" \notin crossed =>
       /\ \A c \in Codes : Cardinality(joined[c]) <= 1
       /\ \A a \in Accounts : Cardinality({c \in Codes : Live(c) /\ codes[c].account = a}) <= 1

\* While no two changes of accounts cross, an active admin stays.
AdminStays == "accounts" \notin crossed => \E a \in Accounts : Admin(a)
=============================================================================
