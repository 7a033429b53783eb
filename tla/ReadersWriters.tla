--------------------------- MODULE ReadersWriters ---------------------------
(***************************************************************************)
(* What a readers-writer lock promises: any number of readers at a time,   *)
(* or one writer alone, and only the writer changes the value.             *)
(***************************************************************************)
EXTENDS Naturals

CONSTANTS Readers, Writers

VARIABLES reading,   \* the readers that have the lock
          writing,   \* the writers that have it
          value      \* the shared variable

vars == <<reading, writing, value>>

Init == reading = {} /\ writing = {} /\ value = 0

StartRead(r) == /\ r \notin reading
                /\ writing = {}
                /\ reading' = reading \cup {r}
                /\ UNCHANGED <<writing, value>>

StartWrite(w) == /\ reading = {} /\ writing = {}
                 /\ writing' = {w}
                 /\ UNCHANGED <<reading, value>>

Write(w) == /\ writing = {w}
            /\ value' = value + 1
            /\ UNCHANGED <<reading, writing>>

EndRead(r) == /\ r \in reading
              /\ reading' = reading \ {r}
              /\ UNCHANGED <<writing, value>>

EndWrite(w) == /\ writing = {w}
               /\ writing' = {}
               /\ UNCHANGED <<reading, value>>

Next == \/ \E r \in Readers : StartRead(r) \/ EndRead(r)
        \/ \E w \in Writers : StartWrite(w) \/ Write(w) \/ EndWrite(w)

Spec == Init /\ [][Next]_vars
=============================================================================
