---------------------------- MODULE MCTopology ----------------------------
(* Hand-written topologies and drafts for the run of Topology. *)
EXTENDS Topology, TLC

Source(driver, cred, folder) ==
  [driver |-> driver, mode |-> IF driver = "webhook" THEN "push" ELSE "poll", cred |-> cred,
   folder |-> folder, configured |-> driver = "webhook"]
Sink(driver, cred, folder) == [driver |-> driver, cred |-> cred, folder |-> folder]
To(sink, required) == [name |-> None, sink |-> sink, artifact |-> "", required |-> required]
RouteOf(sources, targets) ==
  [sources |-> sources, targets |-> targets, delete |-> FALSE, sameStore |-> FALSE,
   eligible |-> {}]

Inbox == <<"inbox">>
Hook == <<"hook">>
Archive == <<"archive">>
Copy == <<"copy">>
Files == <<"files">>
Office == <<"office">>
Home == <<"home">>
Mail == <<"mail">>
MailIn == <<"mail", "in">>
InBox == <<"in", "box">>
Box == <<"box">>

(* README's example: one source, one route, no defaults. *)
Plainest ==
  [Empty EXCEPT
     !.creds = (DefaultName :> None),
     !.sources = (Inbox :> Source("imap", None, <<"INBOX">>)),
     !.sinks = (Archive :> Sink("imap", None, <<"Encrypted">>)),
     !.routes = (Mail :> RouteOf(<<Inbox>>, <<To(Archive, TRUE)>>))]

(* Two credentials, one with a directory of its own, two routes that share  *)
(* a source, a deletion, and every default set.                             *)
TwoRoutes ==
  [Empty EXCEPT
     !.creds = (Office :> <<"elsewhere">>) @@ (Home :> None) @@ (DefaultName :> None),
     !.sources = (Inbox :> Source("graph", Office, <<"inbox">>))
                 @@ (Copy :> Source("imap", None, <<"INBOX">>)),
     !.sinks = (Archive :> Sink("ews", Office, None)) @@ (Files :> Sink("file", None, None)),
     !.routes = (Mail :> [RouteOf(<<Inbox, Copy>>, <<To(Archive, TRUE), To(Files, FALSE)>>)
                            EXCEPT !.delete = TRUE, !.eligible = {Archive}])
                @@ (MailIn :> RouteOf(<<Inbox>>, <<To(Files, TRUE)>>)),
     !.defCred = Home, !.defSource = Inbox, !.defRoute = Mail]

(* Names whose joined forms coincide: mail-in + box and mail + in-box, and   *)
(* folders that get the same file name.                                     *)
Joined ==
  [Empty EXCEPT
     !.sources = (InBox :> Source("webhook", None, <<"a">>))
                 @@ (Box :> Source("webhook", None, <<"a">>))
                 @@ (<<"in/box">> :> Source("webhook", None, <<"a">>))
                 @@ (<<"in_box">> :> Source("webhook", None, <<"a">>)),
     !.sinks = (Files :> Sink("discard", None, None)),
     !.routes = (Mail :> RouteOf(<<InBox, <<"in/box">>, <<"in_box">> >>, <<To(Files, TRUE)>>))
                @@ (MailIn :> RouteOf(<<Box>>, <<To(Files, TRUE)>>)),
     !.defRoute = Mail]

(* Two credentials and nothing that tells which one an empty reference means, *)
(* and a sink whose driver cannot be a sink.                                 *)
Undecided ==
  [Empty EXCEPT
     !.creds = (Office :> None) @@ (Home :> None),
     !.sources = (Inbox :> Source("imap", Home, <<"INBOX">>))
                 @@ (Copy :> Source("graph", None, <<"inbox">>)),
     !.sinks = (Archive :> Sink("webhook", None, None)) @@ (Files :> Sink("backup", None, None)),
     !.routes = (Mail :> RouteOf(<<Inbox>>, <<To(Archive, TRUE)>>))
                @@ (Copy :> RouteOf(<<Inbox, Copy>>, <<To(Files, TRUE)>>)),
     !.defSource = Copy]

Sinkless == [Empty EXCEPT !.sinks = (Files :> Sink("file", None, None))]

Topologies == {Plainest, TwoRoutes, Joined, Undecided, Sinkless}

DraftsEntered ==
  [source : {Hook, Inbox}, route : {None, Mail, Hook}, sink : {Files, Archive}, rooted : BOOLEAN]

FileNames == ("in/box" :> "in_box")
=============================================================================
