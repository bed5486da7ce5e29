------------------------------ MODULE FileStore ------------------------------
(***************************************************************************)
(* What the file system promises of the files on a pak, whatever is pulled *)
(* or fails while it is at work: a file changes only by a call that names  *)
(* it, and a call that is cut short leaves the files as they were, as it   *)
(* meant them to be, or unreadable and known to be so.                     *)
(***************************************************************************)
CONSTANTS
  Names,      \* the files there may be
  Versions,   \* what a file may hold
  NoName,     \* no file
  NoFile,     \* what there is where there is no file
  None        \* no change under way

VARIABLES
  readable,   \* the pak's directory can be told to be whole
  files,      \* what the pak holds; nothing at all when it is not readable
  intent,     \* the files as the change under way means them to be
  given_up    \* the file whose only copy is being written over

svars == <<readable, files, intent, given_up>>

NoFiles == [n \in Names |-> NoFile]

Saved(n, v)    == [files EXCEPT ![n] = v]
Deleted(n)     == [files EXCEPT ![n] = NoFile]
Renamed(n, to) == [[files EXCEPT ![n] = NoFile] EXCEPT ![to] = files[n]]

\* A save, a delete, a rename or a format sets out to change the directory.
Begin ==
  /\ intent = None
  /\ \/ /\ readable
        /\ \/ \E n \in Names, v \in Versions :
                given_up \in {NoName, n} /\ intent' = Saved(n, v)
           \/ \E n \in Names :
                /\ given_up = NoName /\ files[n] # NoFile
                /\ \/ intent' = Deleted(n)
                   \/ \E to \in Names : /\ files[to] = NoFile \/ to = n
                                        /\ intent' = Renamed(n, to)
     \/ given_up = NoName /\ intent' = NoFiles
  /\ given_up' = NoName
  /\ UNCHANGED <<readable, files>>

\* Part of the new directory is stored.
Tear == /\ intent # None
        /\ readable' = FALSE /\ files' = NoFiles
        /\ UNCHANGED <<intent, given_up>>

\* All of it is.
Complete == /\ intent # None
            /\ readable' = TRUE /\ files' = intent
            /\ UNCHANGED <<intent, given_up>>

\* The call is over, or is cut short.  The last thing it stored may be the end of
\* the new directory, or a part of it.
GiveOver ==
  /\ intent # None \/ given_up # NoName
  /\ intent' = None /\ given_up' = NoName
  /\ \/ UNCHANGED <<readable, files>>
     \/ intent # None /\ readable' = TRUE /\ files' = intent
     \/ intent # None /\ readable' = FALSE /\ files' = NoFiles

\* There is room for one version of n only, so the new one goes over the old.
GiveUp(n) == /\ readable /\ intent = None /\ given_up = NoName
             /\ files[n] # NoFile
             /\ given_up' = n
             /\ UNCHANGED <<readable, files, intent>>

WriteOver == /\ given_up # NoName
             /\ \E v \in Versions : files' = Saved(given_up, v)
             /\ given_up' \in {given_up, NoName}
             /\ UNCHANGED <<readable, intent>>

Init == /\ readable \in BOOLEAN
        /\ files \in [Names -> Versions \cup {NoFile}]
        /\ ~readable => files = NoFiles
        /\ intent = None /\ given_up = NoName

Next == Begin \/ Tear \/ Complete \/ GiveOver \/ WriteOver \/ \E n \in Names : GiveUp(n)

Spec == Init /\ [][Next]_svars
=============================================================================
