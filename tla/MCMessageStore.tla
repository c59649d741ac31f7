--------------------------- MODULE MCMessageStore ---------------------------
(* Instance of MessageStore for TLC: a question, a mail without a Message-ID *)
(* that refers to it, in two folders of one account and in another account,  *)
(* and the question once more, in a form that cannot be downloaded as such.  *)
EXTENDS MessageStore, TLC

Inbox   == [name |-> "inbox", account |-> "a"]
Archive == [name |-> "archive", account |-> "a"]
Other   == [name |-> "inbox", account |-> "b"]

Question == [name |-> "question", id |-> "q", refs |-> {}, date |-> 1, kind |-> "small"]
Nameless == [name |-> "nameless", id |-> None, refs |-> {"q"}, date |-> 3, kind |-> "small"]
Huge     == [Nameless EXCEPT !.kind = "large"]
Refused  == [Question EXCEPT !.kind = "refused"]

FolderOf == "h1" :> Inbox @@ "h2" :> Inbox @@ "h3" :> Archive @@ "h4" :> Other @@ "h5" :> Other
MailOf   == "h1" :> Question @@ "h2" :> Huge @@ "h3" :> Huge @@ "h4" :> Huge @@ "h5" :> Refused

Interchangeable == Permutations(Jobs)
=============================================================================
