----------------------------- MODULE MCServices -----------------------------
(***************************************************************************)
(* Services for TLC: two accounts, two identities, three facts, and two    *)
(* settings to start from.                                                 *)
(***************************************************************************)
EXTENDS Services, TLC

CONSTANTS ann, bob, phone, handle, u1, u2, g1

MCBefores == {{ann, phone}, {ann, phone, handle}}

\* The settings: a chat role on "a" with a model of its own, an audio role, and one
\* of the roles rolesUsingBackend leaves out.
ByRole(ch, au, cl) == "chat" :> ch @@ "audio" :> au @@ "classifier" :> cl
Catalog == "a" :> "u" @@ "b" :> "v"
InheritsChat ==
  [settings |-> [backend |-> ByRole("a", "none", "none"), model |-> ByRole("m", "none", "m"),
                 mode |-> "transcriptions"], catalog |-> Catalog]
OnTheirOwn ==
  [settings |-> [backend |-> ByRole("a", "a", "b"), model |-> ByRole("m", "m", "n"),
                 mode |-> "chat"], catalog |-> Catalog]
MCPatches ==
  [backend : {"chat" :> "b"}, model : {<<>>, "chat" :> "n"}, mode : {"none"}]
  \cup [backend : {"classifier" :> "none"}, model : {<<>>}, mode : {"none"}]
  \cup [backend : {"audio" :> "b"}, model : {"audio" :> "m"}, mode : {"none"}]
  \cup [backend : {<<>>}, model : {<<>>}, mode : {"chat"}]
MCRoleBefores == {InheritsChat, OnTheirOwn}
MCServes == "u" :> {"m"} @@ "v" :> {"n"}

=============================================================================
