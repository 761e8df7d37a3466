------------------------ MODULE ResumableUploadProofs ------------------------
(***************************************************************************)
(* Proofs about resumable uploads, for any files, any number of retries,   *)
(* runs, edits, sessions and faults.                                       *)
(***************************************************************************)
EXTENDS ResumableUpload, SequenceTheorems, TLAPS

-----------------------------------------------------------------------------
(* Type correctness.  Control and flags are kept by an inspection of every *)
(* action; the other parts take a step per action.                         *)

\* The handler's control keeps its type, and a session where one is needed.
LEMMA ControlStep == ControlOK /\ UrisOK /\ [Next]_vars => ControlOK'
BY NamesAssumption
   DEF ControlOK, UrisOK, Steps, Results, Requesting, Next, Step, Goto, Finish, Fault,
         vars, disk, store, hashed, handler, transfer, bounds, history,
         Run, HashFile, MeasureFile, Attempt, Query, QueryUnclear,
         StartNew, StartWithoutLocation, StartRefused, RequestLost,
         ServerError, OpenTracker, OpenTrackerFails, WriteTracker,
         WriteTrackerFails, SeekFile, SendBytes, EndOfFile, ReadFails,
         Respond, SendFails, ResponseUnclear, ResponseRefused, Requery,
         RemoveTracker, RemoveTrackerFails, CheckFinalMd5, DeleteObject,
         DeleteFails, Abort, Retry, Crash, EditFile, Expire

\* The Boolean variables keep their type.
LEMMA FlagsStep == FlagsOK /\ [Next]_vars => FlagsOK'
BY NamesAssumption
   DEF FlagsOK, Next, Step, Goto, Finish, Fault,
         vars, disk, store, hashed, handler, transfer, bounds, history,
         Run, HashFile, MeasureFile, Attempt, Query, QueryUnclear,
         StartNew, StartWithoutLocation, StartRefused, RequestLost,
         ServerError, OpenTracker, OpenTrackerFails, WriteTracker,
         WriteTrackerFails, SeekFile, SendBytes, EndOfFile, ReadFails,
         Respond, SendFails, ResponseUnclear, ResponseRefused, Requery,
         RemoveTracker, RemoveTrackerFails, CheckFinalMd5, DeleteObject,
         DeleteFails, Abort, Retry, Crash, EditFile, Expire

\* A handler that asks or sends does so with a session of the server.
LEMMA SessionTyped ==
    ASSUME TypeOK, uri # NoUri
    PROVE  /\ uri \in 1..Len(sessions)
           /\ sessions[uri] \in Session
           /\ sessions[uri].data \in Seq(Byte) /\ Len(sessions[uri].data) \in Nat
<1>1. uri \in 1..Len(sessions)
  BY DEF TypeOK, UrisOK
<1>2. sessions[uri] \in Session
  BY <1>1 DEF TypeOK, ContentsOK
<1>3. QED  BY <1>1, <1>2 DEF Session

\* What the arrival of bytes does to the sessions and the object.
LEMMA ReceivedEffect ==
    ASSUME TypeOK, uri # NoUri, NEW bytes \in Seq(Byte),
           NEW total \in Nat \union {Unknown}, Received(bytes, total)
    PROVE  /\ sessions' \in Seq(Session) /\ Len(sessions') = Len(sessions)
           /\ object' \in Seq(Byte) \union {NoObject}
           /\ \A id \in 1..Len(sessions) : id # uri => sessions'[id] = sessions[id]
           /\ sessions'[uri].data = sessions[uri].data \o bytes
           /\ sessions'[uri].total = total
           /\ sessions'[uri].alive = sessions[uri].alive
           /\ object' = IF Complete(sessions'[uri]) THEN sessions'[uri].data ELSE object
<1> DEFINE s == [sessions[uri] EXCEPT !.data = sessions[uri].data \o bytes, !.total = total]
<1>1. /\ uri \in 1..Len(sessions) /\ sessions[uri] \in Session
      /\ sessions[uri].data \in Seq(Byte)
  BY SessionTyped
<1>2. sessions[uri].data \o bytes \in Seq(Byte)
  BY <1>1, ConcatProperties
<1>3. s \in Session /\ s.data = sessions[uri].data \o bytes /\ s.total = total
      /\ s.alive = sessions[uri].alive
  BY <1>1, <1>2 DEF Session
<1>4. /\ sessions' = [sessions EXCEPT ![uri] = s]
      /\ object' = IF Complete(s) THEN s.data ELSE object
  BY DEF Received
<1>5. sessions \in Seq(Session) /\ object \in Seq(Byte) \union {NoObject}
  BY DEF TypeOK, ContentsOK
<1> HIDE DEF s
<1>6. /\ sessions' \in Seq(Session) /\ Len(sessions') = Len(sessions)
      /\ sessions'[uri] = s
      /\ \A id \in 1..Len(sessions) : id # uri => sessions'[id] = sessions[id]
  BY <1>1, <1>3, <1>4, <1>5
<1>7. object' \in Seq(Byte) \union {NoObject}
  BY <1>2, <1>3, <1>4, <1>5
<1>8. QED  BY <1>3, <1>4, <1>6, <1>7

\* A fault changes no number.
LEMMA FaultNumbers ==
    ASSUME NumbersOK, NEW harmless, Fault(harmless)
    PROVE  /\ runs' \in Nat /\ edits' \in Nat
           /\ oks' \in Nat
BY DEF NumbersOK, Fault, bounds

\* Positions, counters and the history's numbers keep their type.
LEMMA NumbersStep == TypeOK /\ [Next]_vars => NumbersOK'
<1> SUFFICES ASSUME TypeOK, NumbersOK, ContentsOK, [Next]_vars PROVE NumbersOK'
  BY DEF TypeOK
<1> USE DEF NumbersOK, ContentsOK,
            disk, store, hashed, handler, transfer, bounds, history, Goto, Finish
<1>1. CASE Run
  BY <1>1, NamesAssumption DEF Run
<1>2. CASE HashFile
  BY <1>2 DEF HashFile
<1>3. CASE MeasureFile
  BY <1>3 DEF MeasureFile
<1>4. CASE Attempt
  BY <1>4 DEF Attempt
<1>5. CASE Query
  <2>1. Len(sessions[uri].data) \in Nat
    BY <1>5, NamesAssumption, SessionTyped DEF Query, TypeOK, ControlOK
  <2>2. end' \in Nat \union {-1}
    BY <1>5, <2>1 DEF Query
  <2>3. has' \in Nat
    BY <1>5 DEF Query
  <2>4. QED  BY <1>5, <2>2, <2>3 DEF Query
<1>6. CASE QueryUnclear
  BY <1>6, FaultNumbers DEF QueryUnclear
<1>7. CASE StartNew
  BY <1>7 DEF StartNew
<1>8. CASE StartWithoutLocation
  BY <1>8, FaultNumbers DEF StartWithoutLocation
<1>9. CASE StartRefused
  BY <1>9, FaultNumbers DEF StartRefused
<1>10. CASE RequestLost
  BY <1>10, FaultNumbers DEF RequestLost
<1>11. CASE ServerError
  BY <1>11, FaultNumbers DEF ServerError
<1>12. CASE OpenTracker
  BY <1>12 DEF OpenTracker
<1>13. CASE OpenTrackerFails
  BY <1>13, FaultNumbers DEF OpenTrackerFails
<1>14. CASE WriteTracker
  BY <1>14 DEF WriteTracker
<1>15. CASE WriteTrackerFails
  BY <1>15, FaultNumbers DEF WriteTrackerFails
<1>16. CASE SeekFile
  BY <1>16 DEF SeekFile, ResumePoint
<1>17. CASE SendBytes
  BY <1>17 DEF SendBytes
<1>18. CASE EndOfFile
  BY <1>18 DEF EndOfFile
<1>19. CASE ReadFails
  BY <1>19, FaultNumbers DEF ReadFails
<1>20. CASE Respond
  BY <1>20 DEF Respond
<1>21. CASE SendFails
  BY <1>21, FaultNumbers DEF SendFails
<1>22. CASE ResponseUnclear
  BY <1>22, FaultNumbers DEF ResponseUnclear
<1>23. CASE ResponseRefused
  BY <1>23, FaultNumbers DEF ResponseRefused
<1>24. CASE Requery
  BY <1>24 DEF Requery
<1>25. CASE RemoveTracker
  BY <1>25 DEF RemoveTracker
<1>26. CASE RemoveTrackerFails
  BY <1>26, FaultNumbers DEF RemoveTrackerFails
<1>27. CASE CheckFinalMd5
  BY <1>27 DEF CheckFinalMd5
<1>28. CASE DeleteObject
  BY <1>28 DEF DeleteObject
<1>29. CASE DeleteFails
  BY <1>29, FaultNumbers DEF DeleteFails
<1>30. CASE Abort
  BY <1>30 DEF Abort
<1>31. CASE Retry
  BY <1>31 DEF Retry
<1>32. CASE Crash
  BY <1>32, FaultNumbers DEF Crash
<1>33. CASE EditFile
  BY <1>33, FilesAssumption DEF EditFile
<1>34. CASE Expire
  BY <1>34 DEF Expire
<1>35. CASE UNCHANGED vars
  BY <1>35 DEF vars
<1>36. QED
  BY
     <1>1, <1>2, <1>3, <1>4, <1>5, <1>6, <1>7, <1>8, <1>9, <1>10, <1>11,
     <1>12, <1>13, <1>14, <1>15, <1>16, <1>17, <1>18, <1>19, <1>20, <1>21,
     <1>22, <1>23, <1>24, <1>25, <1>26, <1>27, <1>28, <1>29, <1>30, <1>31,
     <1>32, <1>33, <1>34, <1>35
     DEF Next, Step

\* The file, its digest, the sessions and the object keep their type.
LEMMA ContentsStep == TypeOK /\ [Next]_vars => ContentsOK'
<1> SUFFICES ASSUME TypeOK, ContentsOK, [Next]_vars PROVE ContentsOK'
  BY DEF TypeOK
<1> USE DEF ContentsOK,
            disk, store, hashed, handler, transfer, bounds, history, Goto, Finish
<1>1. CASE Run
  BY <1>1, NamesAssumption DEF Run
<1>2. CASE HashFile
  BY <1>2 DEF HashFile
<1>3. CASE MeasureFile
  BY <1>3 DEF MeasureFile
<1>4. CASE Attempt
  BY <1>4 DEF Attempt
<1>5. CASE Query
  BY <1>5 DEF Query
<1>6. CASE QueryUnclear
  BY <1>6 DEF QueryUnclear, Fault
<1>7. CASE StartNew
  <2>1. [data |-> <<>>, total |-> Unknown, alive |-> TRUE] \in Session
    BY DEF Session
  <2>2. sessions' \in Seq(Session)
    BY <1>7, <2>1, AppendProperties DEF StartNew
  <2>3. QED  BY <1>7, <2>2 DEF StartNew
<1>8. CASE StartWithoutLocation
  BY <1>8 DEF StartWithoutLocation, Fault
<1>9. CASE StartRefused
  BY <1>9 DEF StartRefused, Fault
<1>10. CASE RequestLost
  BY <1>10 DEF RequestLost, Fault
<1>11. CASE ServerError
  BY <1>11 DEF ServerError, Fault
<1>12. CASE OpenTracker
  BY <1>12 DEF OpenTracker
<1>13. CASE OpenTrackerFails
  BY <1>13 DEF OpenTrackerFails, Fault
<1>14. CASE WriteTracker
  BY <1>14 DEF WriteTracker
<1>15. CASE WriteTrackerFails
  BY <1>15 DEF WriteTrackerFails, Fault
<1>16. CASE SeekFile
  <2>1. uri # NoUri
    BY <1>16 DEF SeekFile, TypeOK, ControlOK
  <2>2. CASE UNCHANGED store
    BY <1>16, <2>2 DEF SeekFile
  <2>3. CASE Received(<<>>, length)
    <3>1. <<>> \in Seq(Byte) /\ length \in Nat \union {Unknown}
      BY DEF TypeOK, NumbersOK
    <3>2. sessions' \in Seq(Session) /\ object' \in Seq(Byte) \union {NoObject}
      BY <2>1, <2>3, <3>1, ReceivedEffect
    <3>3. QED  BY <1>16, <3>2 DEF SeekFile
  <2>4. QED  BY <1>16, <2>2, <2>3 DEF SeekFile
<1>17. CASE SendBytes
  <2>1. uri # NoUri
    BY <1>17 DEF SendBytes, TypeOK, ControlOK
  <2>2. CASE UNCHANGED store
    BY <1>17, <2>2 DEF SendBytes
  <2>3. CASE Received(<<file[pos + 1]>>, sessions[uri].total)
    <3>1. /\ <<file[pos + 1]>> \in Seq(Byte)
          /\ sessions[uri].total \in Nat \union {Unknown}
      <4>1. pos + 1 \in 1..Len(file) /\ file \in Seq(Byte)
        BY <1>17 DEF SendBytes, TypeOK, NumbersOK
      <4>2. file[pos + 1] \in Byte
        BY <4>1
      <4>3. QED  BY <2>1, <4>2, SessionTyped DEF Session
    <3>2. sessions' \in Seq(Session) /\ object' \in Seq(Byte) \union {NoObject}
      BY <2>1, <2>3, <3>1, ReceivedEffect
    <3>3. QED  BY <1>17, <3>2 DEF SendBytes
  <2>4. QED  BY <1>17, <2>2, <2>3 DEF SendBytes
<1>18. CASE EndOfFile
  BY <1>18 DEF EndOfFile
<1>19. CASE ReadFails
  BY <1>19 DEF ReadFails, Fault
<1>20. CASE Respond
  <2>1. sessions[uri].data \in Seq(Byte)
    BY <1>20, NamesAssumption, SessionTyped DEF Respond, TypeOK, ControlOK
  <2>2. etag' \in Seq(Byte)
    BY <1>20, <2>1 DEF Respond
  <2>3. QED  BY <1>20, <2>2 DEF Respond
<1>21. CASE SendFails
  BY <1>21 DEF SendFails, Fault
<1>22. CASE ResponseUnclear
  BY <1>22 DEF ResponseUnclear, Fault
<1>23. CASE ResponseRefused
  BY <1>23 DEF ResponseRefused, Fault
<1>24. CASE Requery
  BY <1>24 DEF Requery
<1>25. CASE RemoveTracker
  BY <1>25 DEF RemoveTracker
<1>26. CASE RemoveTrackerFails
  BY <1>26 DEF RemoveTrackerFails, Fault
<1>27. CASE CheckFinalMd5
  BY <1>27 DEF CheckFinalMd5
<1>28. CASE DeleteObject
  BY <1>28 DEF DeleteObject
<1>29. CASE DeleteFails
  BY <1>29 DEF DeleteFails, Fault
<1>30. CASE Abort
  BY <1>30 DEF Abort
<1>31. CASE Retry
  BY <1>31 DEF Retry
<1>32. CASE Crash
  BY <1>32 DEF Crash, Fault
<1>33. CASE EditFile
  BY <1>33, FilesAssumption DEF EditFile
<1>34. CASE Expire
  <2>1. PICK id \in 1..Len(sessions) :
           sessions' = [sessions EXCEPT ![id] = [sessions[id] EXCEPT !.alive = FALSE]]
    BY <1>34 DEF Expire
  <2>2. sessions[id] \in Session
    OBVIOUS
  <2>3. [sessions[id] EXCEPT !.alive = FALSE] \in Session
    BY <2>2 DEF Session
  <2>5. sessions' \in Seq(Session)
    BY <2>1, <2>3
  <2>6. QED  BY <1>34, <2>5 DEF Expire
<1>35. CASE UNCHANGED vars
  BY <1>35 DEF vars
<1>36. QED
  BY
     <1>1, <1>2, <1>3, <1>4, <1>5, <1>6, <1>7, <1>8, <1>9, <1>10, <1>11,
     <1>12, <1>13, <1>14, <1>15, <1>16, <1>17, <1>18, <1>19, <1>20, <1>21,
     <1>22, <1>23, <1>24, <1>25, <1>26, <1>27, <1>28, <1>29, <1>30, <1>31,
     <1>32, <1>33, <1>34, <1>35
     DEF Next, Step

\* The tracker file and the handler name sessions that were started.
LEMMA UrisStep == TypeOK /\ [Next]_vars => UrisOK'
<1> SUFFICES ASSUME TypeOK, UrisOK, ControlOK, ContentsOK, [Next]_vars PROVE UrisOK'
  BY DEF TypeOK
<1> USE DEF UrisOK, ControlOK, ContentsOK,
            disk, store, hashed, handler, transfer, bounds, history, Goto, Finish
<1>1. CASE Run
  BY <1>1, NamesAssumption DEF Run
<1>2. CASE HashFile
  BY <1>2 DEF HashFile
<1>3. CASE MeasureFile
  BY <1>3 DEF MeasureFile
<1>4. CASE Attempt
  BY <1>4 DEF Attempt
<1>5. CASE Query
  BY <1>5 DEF Query
<1>6. CASE QueryUnclear
  BY <1>6 DEF QueryUnclear, Fault
<1>7. CASE StartNew
  <2>1. Len(sessions') = Len(sessions) + 1
    BY <1>7 DEF StartNew
  <2>2. QED  BY <1>7, <2>1 DEF StartNew
<1>8. CASE StartWithoutLocation
  BY <1>8 DEF StartWithoutLocation, Fault
<1>9. CASE StartRefused
  BY <1>9 DEF StartRefused, Fault
<1>10. CASE RequestLost
  BY <1>10 DEF RequestLost, Fault
<1>11. CASE ServerError
  BY <1>11 DEF ServerError, Fault
<1>12. CASE OpenTracker
  BY <1>12 DEF OpenTracker
<1>13. CASE OpenTrackerFails
  BY <1>13 DEF OpenTrackerFails, Fault
<1>14. CASE WriteTracker
  BY <1>14 DEF WriteTracker
<1>15. CASE WriteTrackerFails
  BY <1>15 DEF WriteTrackerFails, Fault
<1>16. CASE SeekFile
  <2>1. Len(sessions') = Len(sessions)
    BY <1>16 DEF SeekFile, Received
  <2>2. QED  BY <1>16, <2>1 DEF SeekFile
<1>17. CASE SendBytes
  <2>1. Len(sessions') = Len(sessions)
    BY <1>17 DEF SendBytes, Received
  <2>2. QED  BY <1>17, <2>1 DEF SendBytes
<1>18. CASE EndOfFile
  BY <1>18 DEF EndOfFile
<1>19. CASE ReadFails
  BY <1>19 DEF ReadFails, Fault
<1>20. CASE Respond
  BY <1>20 DEF Respond
<1>21. CASE SendFails
  BY <1>21 DEF SendFails, Fault
<1>22. CASE ResponseUnclear
  BY <1>22 DEF ResponseUnclear, Fault
<1>23. CASE ResponseRefused
  BY <1>23 DEF ResponseRefused, Fault
<1>24. CASE Requery
  BY <1>24 DEF Requery
<1>25. CASE RemoveTracker
  BY <1>25 DEF RemoveTracker
<1>26. CASE RemoveTrackerFails
  BY <1>26 DEF RemoveTrackerFails, Fault
<1>27. CASE CheckFinalMd5
  BY <1>27 DEF CheckFinalMd5
<1>28. CASE DeleteObject
  BY <1>28 DEF DeleteObject
<1>29. CASE DeleteFails
  BY <1>29 DEF DeleteFails, Fault
<1>30. CASE Abort
  BY <1>30 DEF Abort
<1>31. CASE Retry
  BY <1>31 DEF Retry
<1>32. CASE Crash
  BY <1>32 DEF Crash, Fault
<1>33. CASE EditFile
  BY <1>33, FilesAssumption DEF EditFile
<1>34. CASE Expire
  <2>1. Len(sessions') = Len(sessions)
    BY <1>34 DEF Expire
  <2>2. QED  BY <1>34, <2>1 DEF Expire
<1>35. CASE UNCHANGED vars
  BY <1>35 DEF vars
<1>36. QED
  BY
     <1>1, <1>2, <1>3, <1>4, <1>5, <1>6, <1>7, <1>8, <1>9, <1>10, <1>11,
     <1>12, <1>13, <1>14, <1>15, <1>16, <1>17, <1>18, <1>19, <1>20, <1>21,
     <1>22, <1>23, <1>24, <1>25, <1>26, <1>27, <1>28, <1>29, <1>30, <1>31,
     <1>32, <1>33, <1>34, <1>35
     DEF Next, Step

\* Initially every variable has its type.
LEMMA TypeInit == Init => TypeOK
<1> SUFFICES ASSUME Init PROVE TypeOK
  OBVIOUS
<1>1. ContentsOK /\ UrisOK
  BY FilesAssumption DEF Init, ContentsOK, UrisOK
<1>2. NumbersOK
  BY DEF Init, NumbersOK
<1>3. ControlOK
  BY DEF Init, ControlOK, Steps, Results
<1>4. FlagsOK
  BY DEF Init, FlagsOK
<1>5. QED  BY <1>1, <1>2, <1>3, <1>4 DEF TypeOK

LEMMA TypeStep == TypeOK /\ [Next]_vars => TypeOK'
BY ControlStep, NumbersStep, FlagsStep, ContentsStep, UrisStep DEF TypeOK

\* The handler's state is well typed however runs, faults and edits follow
\* each other, and every session it or the tracker file names was started.
THEOREM TypeCorrect == Spec => []TypeOK
<1>1. Init => TypeOK
  BY TypeInit
<1>2. TypeOK /\ [Next]_vars => TypeOK'
  BY TypeStep
<1>3. QED  BY <1>1, <1>2, PTL DEF Spec

-----------------------------------------------------------------------------
(* A successful run stores the file it hashed.  That the etag matches is    *)
(* not enough: the etag is the one of the handler's session, which must be  *)
(* the upload that wrote the object, also when it was completed by an       *)
(* earlier run, and no other session may have been completed since.         *)

\* The object holds the upload of a complete session.
Stored(id) == Complete(sessions[id]) => object = sessions[id].data

\* The bytes the server has of the request being sent.
InStep ==
    LET s == sessions[uri] IN
    accepted /\ s.alive =>
        CASE pc = "send" -> Complete(s) \/ (s.total = length /\ Len(s.data) = pos)
          [] pc = "respond" -> Complete(s)

\* The tracker file's session and the handler's are never two uploads of
\* which only one is the stored object.
UploadInv ==
    /\ tracker \in 1..Len(sessions) => Stored(tracker)
    /\ uri # NoUri /\ pc \notin {"idle", "abort"} => Stored(uri)
    /\ uri # NoUri /\ pc \notin {"idle", "open", "abort"} =>
          tracker \in {uri, Torn, NoUri}
    /\ pc \in {"send", "respond"} => InStep
    /\ pc \in {"remove", "check"} => etag = object
    /\ pc \in {"check", "delete"} => tracker = NoUri
    /\ result = "ok" => pc = "idle" /\ object = md5

LEMMA NextIndex == ASSUME NEW i \in Nat, NEW n \in Nat, i < n PROVE i + 1 \in 1..n
OBVIOUS

\* A step after which the session in use is stored leaves the tracker's
\* session, which is no other, stored.
LEMMA SameSession ==
    ASSUME uri' = uri, tracker' = tracker, tracker \in {uri, Torn, NoUri},
           Complete(sessions'[uri]) => object' = sessions'[uri].data
    PROVE  Stored(uri)' /\ (tracker' \in 1..Len(sessions') => Stored(tracker)')
<1>1. Stored(uri)'
  BY DEF Stored, Complete
<1>2. Torn \notin 1..Len(sessions') /\ NoUri \notin 1..Len(sessions')
  BY NamesAssumption
<1>3. QED  BY <1>1, <1>2 DEF Stored, Complete

LEMMA UploadInit == Init => UploadInv
BY NamesAssumption DEF Init, UploadInv

LEMMA UploadStep == TypeOK /\ UploadInv /\ [Next]_vars => UploadInv'
<1> SUFFICES ASSUME TypeOK, UploadInv, NumbersOK, ContentsOK, UrisOK, ControlOK,
                    [Next]_vars
             PROVE  UploadInv'
  BY DEF TypeOK
<1> USE NamesAssumption
    DEF UploadInv, InStep, NumbersOK, ContentsOK, UrisOK, ControlOK,
        disk, store, hashed, handler, transfer, bounds, history, Goto, Finish
<1>1. CASE Run
  BY <1>1 DEF Run, Stored
<1>2. CASE HashFile
  BY <1>2 DEF HashFile, Stored
<1>3. CASE MeasureFile
  BY <1>3 DEF MeasureFile, Stored
<1>4. CASE Attempt
  BY <1>4 DEF Attempt, Stored
<1>5. CASE Query
  BY <1>5 DEF Query, Stored
<1>6. CASE QueryUnclear
  BY <1>6 DEF QueryUnclear, Fault, Requesting, Stored
<1>7. CASE StartNew
  <2>1. /\ Len(sessions') = Len(sessions) + 1 /\ uri' = Len(sessions) + 1
        /\ \A id \in 1..Len(sessions) : sessions'[id] = sessions[id]
        /\ sessions'[uri'] = [data |-> <<>>, total |-> Unknown, alive |-> TRUE]
    BY <1>7, AppendProperties DEF StartNew
  <2>2. ~Complete(sessions'[uri'])
    BY <2>1 DEF Complete, Unknown
  <2>3. Stored(uri)'
    BY <2>2 DEF Stored
  <2>4. tracker' \in 1..Len(sessions') => Stored(tracker)'
    <3>1. UNCHANGED <<tracker, object>>
      BY <1>7 DEF StartNew
    <3>2. tracker \in 1..Len(sessions') => tracker \in 1..Len(sessions)
      <4>1. tracker \in 1..Len(sessions) \/ tracker \in {NoUri, Torn}
        OBVIOUS
      <4>2. 1..Len(sessions') \subseteq Nat
        OBVIOUS
      <4>3. QED  BY <4>1, <4>2
    <3>3. QED  BY <2>1, <3>1, <3>2 DEF Stored, Complete
  <2>5. QED  BY <1>7, <2>3, <2>4 DEF StartNew
<1>8. CASE StartWithoutLocation
  BY <1>8 DEF StartWithoutLocation, Fault, Requesting, Stored
<1>9. CASE StartRefused
  BY <1>9 DEF StartRefused, Fault, Requesting, Stored
<1>10. CASE RequestLost
  BY <1>10 DEF RequestLost, Fault, Requesting, Stored
<1>11. CASE ServerError
  BY <1>11 DEF ServerError, Fault, Requesting, Stored
<1>12. CASE OpenTracker
  BY <1>12 DEF OpenTracker, Stored
<1>13. CASE OpenTrackerFails
  BY <1>13 DEF OpenTrackerFails, Fault, Requesting, Stored
<1>14. CASE WriteTracker
  BY <1>14 DEF WriteTracker, Stored
<1>15. CASE WriteTrackerFails
  BY <1>15 DEF WriteTrackerFails, Fault, Requesting, Stored
<1>16. CASE SeekFile
  <2>1. uri \in 1..Len(sessions) /\ uri # NoUri /\ tracker \in {uri, Torn, NoUri}
    BY <1>16, SessionTyped DEF SeekFile
  <2>2. CASE UNCHANGED store /\ accepted' = FALSE
    BY <1>16, <2>2 DEF SeekFile, Stored
  <2>3. CASE UNCHANGED store /\ Complete(sessions[uri])
    BY <1>16, <2>3 DEF SeekFile, Stored
  <2>4. CASE Received(<<>>, length) /\ pos' = Len(sessions[uri].data)
    <3>1. <<>> \in Seq(Byte) /\ length \in Nat \union {Unknown}
      OBVIOUS
    <3>2. /\ sessions'[uri].data = sessions[uri].data /\ sessions'[uri].total = length
          /\ object' = IF Complete(sessions'[uri]) THEN sessions'[uri].data ELSE object
          /\ Len(sessions') = Len(sessions)
      BY <2>1, <2>4, <3>1, ReceivedEffect, SessionTyped, ConcatEmptySeq
    <3>3. Stored(uri)' /\ (tracker' \in 1..Len(sessions') => Stored(tracker)')
      <4>1. UNCHANGED <<uri, tracker>>
        BY <1>16 DEF SeekFile
      <4>2. QED  BY <2>1, <3>2, <4>1, SameSession
    <3>4. QED  BY <1>16, <2>4, <3>2, <3>3, <2>1 DEF SeekFile
  <2>5. QED  BY <1>16, <2>2, <2>3, <2>4 DEF SeekFile
<1>17. CASE SendBytes
  <2>1. uri \in 1..Len(sessions) /\ uri # NoUri /\ tracker \in {uri, Torn, NoUri}
    BY <1>17, SessionTyped DEF SendBytes
  <2>2. CASE UNCHANGED store /\ ~(accepted /\ sessions[uri].alive /\ ~Complete(sessions[uri]))
    BY <1>17, <2>2 DEF SendBytes, Stored
  <2> DEFINE bytes == <<file[pos + 1]>>
  <2>3. CASE /\ Received(bytes, sessions[uri].total)
             /\ accepted /\ sessions[uri].alive /\ ~Complete(sessions[uri])
    <3>1. /\ bytes \in Seq(Byte) /\ Len(bytes) = 1
          /\ sessions[uri].total \in Nat \union {Unknown}
      <4>1. pos + 1 \in 1..Len(file)
        <5>1. pos \in Nat /\ pos < Len(file) /\ Len(file) \in Nat
          BY <1>17 DEF SendBytes
        <5>2. QED  BY <5>1, NextIndex
      <4>2. file[pos + 1] \in Byte
        BY <4>1
      <4>3. QED  BY <2>1, <4>2, SessionTyped DEF Session
    <3> HIDE DEF bytes
    <3>2. sessions[uri].total = length /\ Len(sessions[uri].data) = pos
      BY <1>17, <2>3 DEF SendBytes
    <3>3. /\ sessions'[uri].data = sessions[uri].data \o bytes
          /\ sessions'[uri].total = length
          /\ object' = IF Complete(sessions'[uri]) THEN sessions'[uri].data ELSE object
          /\ Len(sessions') = Len(sessions)
      BY <2>1, <2>3, <3>1, <3>2, ReceivedEffect
    <3>4. Len(sessions'[uri].data) = pos + 1
      <4>1. sessions[uri].data \in Seq(Byte)
        BY <2>1, SessionTyped
      <4>2. Len(sessions[uri].data \o bytes) = Len(sessions[uri].data) + Len(bytes)
        BY <4>1, <3>1, ConcatProperties
      <4>3. QED  BY <4>2, <3>1, <3>2, <3>3
    <3>5. Stored(uri)' /\ (tracker' \in 1..Len(sessions') => Stored(tracker)')
      <4>1. UNCHANGED <<uri, tracker>>
        BY <1>17 DEF SendBytes
      <4>2. QED  BY <2>1, <3>3, <4>1, SameSession
    <3>6. QED  BY <1>17, <3>3, <3>4, <3>5, <2>1 DEF SendBytes
  <2>4. QED  BY <1>17, <2>2, <2>3 DEF SendBytes
<1>18. CASE EndOfFile
  <2>1. uri # NoUri
    BY <1>18 DEF EndOfFile
  <2>2. pos = length /\ accepted /\ sessions[uri].alive => Complete(sessions[uri])
    BY <1>18 DEF EndOfFile, Complete
  <2>3. QED  BY <1>18, <2>2 DEF EndOfFile, Stored
<1>19. CASE ReadFails
  BY <1>19 DEF ReadFails, Fault, Requesting, Stored
<1>20. CASE Respond
  BY <1>20 DEF Respond, Stored
<1>21. CASE SendFails
  BY <1>21 DEF SendFails, Fault, Requesting, Stored
<1>22. CASE ResponseUnclear
  BY <1>22 DEF ResponseUnclear, Fault, Requesting, Stored
<1>23. CASE ResponseRefused
  BY <1>23 DEF ResponseRefused, Fault, Requesting, Stored
<1>24. CASE Requery
  BY <1>24 DEF Requery, Stored
<1>25. CASE RemoveTracker
  BY <1>25 DEF RemoveTracker, Stored
<1>26. CASE RemoveTrackerFails
  BY <1>26 DEF RemoveTrackerFails, Fault, Requesting, Stored
<1>27. CASE CheckFinalMd5
  BY <1>27 DEF CheckFinalMd5, Stored
<1>28. CASE DeleteObject
  BY <1>28 DEF DeleteObject, Stored
<1>29. CASE DeleteFails
  BY <1>29 DEF DeleteFails, Fault, Requesting, Stored
<1>30. CASE Abort
  BY <1>30 DEF Abort, Stored
<1>31. CASE Retry
  BY <1>31 DEF Retry, Stored
<1>32. CASE Crash
  BY <1>32 DEF Crash, Fault, Requesting, Stored
<1>33. CASE EditFile
  BY <1>33 DEF EditFile, Stored
<1>34. CASE Expire
  <2>1. PICK id \in 1..Len(sessions) :
           sessions' = [sessions EXCEPT ![id] = [sessions[id] EXCEPT !.alive = FALSE]]
    BY <1>34 DEF Expire
  <2>2. sessions[id] \in Session
    OBVIOUS
  <2>3. /\ Len(sessions') = Len(sessions)
        /\ \A k \in 1..Len(sessions) :
              /\ sessions'[k].data = sessions[k].data
              /\ sessions'[k].total = sessions[k].total
              /\ sessions'[k].alive => sessions[k].alive
    <3>1. /\ sessions'[id].data = sessions[id].data
          /\ sessions'[id].total = sessions[id].total
          /\ ~sessions'[id].alive
      BY <2>1, <2>2 DEF Session
    <3>2. \A k \in 1..Len(sessions) : k # id => sessions'[k] = sessions[k]
      BY <2>1
    <3>3. Len(sessions') = Len(sessions)
      BY <2>1
    <3>4. QED  BY <3>1, <3>2, <3>3
  <2>4. \A k \in 1..Len(sessions) : Stored(k) => Stored(k)'
    BY <1>34, <2>3 DEF Expire, Stored, Complete
  <2>5. pc \in {"send", "respond"} => InStep'
    BY <1>34, <2>3, SessionTyped DEF Expire, Complete
  <2>6. QED  BY <1>34, <2>3, <2>4, <2>5 DEF Expire
<1>35. CASE UNCHANGED vars
  BY <1>35 DEF vars, Stored
<1>36. QED
  BY
     <1>1, <1>2, <1>3, <1>4, <1>5, <1>6, <1>7, <1>8, <1>9, <1>10, <1>11,
     <1>12, <1>13, <1>14, <1>15, <1>16, <1>17, <1>18, <1>19, <1>20, <1>21,
     <1>22, <1>23, <1>24, <1>25, <1>26, <1>27, <1>28, <1>29, <1>30, <1>31,
     <1>32, <1>33, <1>34, <1>35
     DEF Next, Step

\* When a run ends well the stored object is the file as it was hashed when
\* the run began, whatever earlier runs, edits and faults left behind.
THEOREM SuccessCorrect == Spec => []SuccessStoresHashedFile
<1>1. Init => TypeOK /\ UploadInv
  BY TypeInit, UploadInit
<1>2. TypeOK /\ UploadInv /\ [Next]_vars => TypeOK' /\ UploadInv'
  BY TypeStep, UploadStep
<1>3. UploadInv => SuccessStoresHashedFile
  BY DEF UploadInv, SuccessStoresHashedFile
<1>4. QED  BY <1>1, <1>2, <1>3, PTL DEF Spec

-----------------------------------------------------------------------------
(* An upload that nothing disturbs: the file is not edited, no session is   *)
(* lost, no status is unexpected and no kill comes between a session's      *)
(* start and the writing of its URI.  Requests may fail, runs may be killed *)
(* or give up, as often as they like.                                       *)

Unedited ==
    /\ pc \notin {"idle", "hash"} => md5 = file
    /\ pc \notin {"idle", "hash", "length"} => length = Len(file)

\* Every session has a part of the file, from its first byte on.
PartOf(f, s) ==
    /\ s.alive /\ Len(s.data) <= Len(f)
    /\ \A i \in 1..Len(s.data) : s.data[i] = f[i]
    /\ s.total = Len(f) \/ (s.total = Unknown /\ Len(s.data) = 0)
Whole == \A id \in 1..Len(sessions) : PartOf(file, sessions[id])

Going == err = "wait" /\ pc \notin {"delete", "abort"} /\ result # "abort"

\* The handler sends from the byte where the session it uses has stopped.
Exact ==
    LET s == sessions[uri] IN
    /\ pc \in {"open", "write", "seek"} =>
          end = IF Complete(s) THEN length ELSE Len(s.data) - 1
    /\ pc = "send" => /\ accepted /\ pos <= length
                      /\ Complete(s) \/ (s.total = length /\ Len(s.data) = pos)
    /\ pc = "respond" => accepted /\ Complete(s)
    /\ pc \in {"remove", "check"} => etag = file

\* A session is started only where neither the handler nor the tracker file
\* names one, and then all earlier ones were completed.
Counted ==
    /\ pc = "open" => tracker = NoUri
    /\ pc = "write" <=> tracker = Torn
    /\ pc = "check" => tracker = NoUri
    /\ pc = "start" => uri = NoUri
    /\ pc \notin {"idle", "open", "write", "check"} => uri = tracker
    /\ Len(sessions) <= oks + IF pc # "open" /\ tracker = NoUri THEN 0 ELSE 1
CalmInv == calm => Unedited /\ Whole /\ Going /\ Exact /\ Counted

\* A complete session has the whole file.
LEMMA CompleteIsFile ==
    ASSUME NEW s \in Session, PartOf(file, s), Complete(s), file \in Seq(Byte)
    PROVE  s.data = file
<1>1. s.data \in Seq(Byte) /\ Len(s.data) = Len(file)
  BY DEF Session, PartOf, Complete, Unknown
<1>2. QED  BY <1>1, SeqEqual DEF PartOf

\* One more buffer.
LEMMA OneMore ==
    ASSUME NEW t \in Seq(Byte), NEW b \in Seq(Byte), Len(b) = 1
    PROVE  /\ Len(t \o b) = Len(t) + 1 /\ (t \o b)[Len(t) + 1] = b[1]
           /\ \A i \in 1..Len(t) : (t \o b)[i] = t[i]
<1>1. /\ Len(t \o b) = Len(t) + Len(b)
      /\ \A i \in 1..Len(t) + Len(b) : (t \o b)[i] = IF i <= Len(t) THEN t[i] ELSE b[i - Len(t)]
  BY ConcatProperties
<1>2. Len(t) + 1 \in 1..Len(t) + Len(b) /\ ~(Len(t) + 1 <= Len(t)) /\ Len(t) + 1 - Len(t) = 1
  OBVIOUS
<1>3. \A i \in 1..Len(t) : i \in 1..Len(t) + Len(b) /\ i <= Len(t)
  OBVIOUS
<1>4. QED  BY <1>1, <1>2, <1>3

LEMMA CalmInit == Init => CalmInv
BY NamesAssumption DEF Init, CalmInv, Unedited, Whole, Going, Exact, Counted

\* Steps that may cost the upload, and those that only follow them.
LEMMA CalmOnly ==
    ASSUME FlagsOK, CalmInv, calm', QueryUnclear \/ StartRefused \/ OpenTrackerFails
             \/ WriteTrackerFails \/ ResponseRefused \/ EditFile \/ Expire
             \/ DeleteObject \/ DeleteFails \/ Abort
    PROVE  FALSE
BY DEF CalmInv, Going, QueryUnclear, StartRefused, OpenTrackerFails, WriteTrackerFails,
       ResponseRefused, EditFile, Expire, DeleteObject, DeleteFails, Abort, Fault, history

\* What is calm was calm before.
LEMMA CalmBefore == FlagsOK /\ [Next]_vars /\ calm' => calm
BY DEF FlagsOK, Next, Step, Fault, vars, history,
       Run, HashFile, MeasureFile, Attempt, Query, QueryUnclear, StartNew,
       StartWithoutLocation, StartRefused, RequestLost, ServerError, OpenTracker,
       OpenTrackerFails, WriteTracker, WriteTrackerFails, SeekFile, SendBytes, EndOfFile,
       ReadFails, Respond, SendFails, ResponseUnclear, ResponseRefused, Requery,
       RemoveTracker, RemoveTrackerFails, CheckFinalMd5, DeleteObject, DeleteFails, Abort,
       Retry, Crash, EditFile, Expire

LEMMA CalmStep == TypeOK /\ CalmInv /\ [Next]_vars => CalmInv'
<1> SUFFICES ASSUME TypeOK, CalmInv, [Next]_vars, calm'
             PROVE  (Unedited /\ Whole /\ Going /\ Exact /\ Counted)'
  BY DEF CalmInv
<1>0. FlagsOK /\ calm /\ Unedited /\ Whole /\ Going /\ Exact /\ Counted
  BY CalmBefore DEF TypeOK, CalmInv
<1>a. NumbersOK /\ ContentsOK /\ UrisOK /\ ControlOK
  BY DEF TypeOK
<1>s. ASSUME uri # NoUri
      PROVE  /\ uri \in 1..Len(sessions) /\ sessions[uri] \in Session
             /\ PartOf(file, sessions[uri]) /\ sessions[uri].data \in Seq(Byte)
             /\ Len(sessions[uri].data) \in Nat
  BY <1>0, <1>s, SessionTyped DEF Whole
<1> USE <1>0, <1>a, NamesAssumption
    DEF disk, store, hashed, handler, transfer, bounds, history, Goto, Finish
<1>1. ASSUME UNCHANGED <<sessions, file>> PROVE Whole'
  BY <1>1 DEF Whole, PartOf
<1>2. CASE Run
  BY <1>1, <1>2 DEF Run, Unedited, Going, Exact, Counted
<1>3. CASE HashFile
  BY <1>1, <1>3 DEF HashFile, Unedited, Going, Exact, Counted
<1>4. CASE MeasureFile
  BY <1>1, <1>4 DEF MeasureFile, Unedited, Going, Exact, Counted
<1>5. CASE Attempt
  BY <1>1, <1>5 DEF Attempt, Unedited, Going, Exact, Counted
<1>6. CASE Query
  <2>1. pc = "query" /\ uri # NoUri /\ length = Len(file)
    BY <1>6 DEF Query, ControlOK, Unedited
  <2>2. Known(sessions[uri])
    BY <1>s, <2>1 DEF Known, PartOf
  <2>3. /\ end' = IF Complete(sessions[uri]) THEN length ELSE Len(sessions[uri].data) - 1
        /\ pc' = "seek"
    BY <1>6, <2>2 DEF Query
  <2>4. Exact'
    BY <1>6, <2>3 DEF Query, Exact, Complete
  <2>5. QED  BY <1>1, <1>6, <2>1, <2>2, <2>4 DEF Query, Unedited, Going, Counted
<1>7. CASE StartNew
  <2>1. /\ pc = "start" /\ uri = NoUri /\ tracker = NoUri
        /\ uri' = Len(sessions) + 1 /\ end' = -1 /\ pc' = "open"
        /\ UNCHANGED <<file, tracker, md5, length, err, result, oks>>
    BY <1>7 DEF StartNew, Counted
  <2> DEFINE new == [data |-> <<>>, total |-> Unknown, alive |-> TRUE]
  <2>2. /\ Len(sessions') = Len(sessions) + 1
        /\ \A id \in 1..Len(sessions) : sessions'[id] = sessions[id]
        /\ sessions'[uri'] = new
    BY <1>7, <2>1, AppendProperties DEF StartNew, ContentsOK
  <2>3. new.data = <<>> /\ new.total = -1 /\ new.alive
    BY DEF Unknown
  <2> HIDE DEF new
  <2>4. Len(sessions) \in Nat /\ oks \in Nat /\ Len(file) \in Nat
    BY DEF NumbersOK, ContentsOK
  <2>5. Whole'
    <3>1. \A id \in 1..Len(sessions) : PartOf(file', sessions'[id])
      BY <2>1, <2>2 DEF Whole, PartOf
    <3>2. PartOf(file', sessions'[uri'])
      BY <2>1, <2>2, <2>3, <2>4 DEF PartOf, Unknown
    <3>3. QED  BY <2>1, <2>2, <2>4, <3>1, <3>2 DEF Whole
  <2>6. Exact'
    BY <2>1, <2>2, <2>3 DEF Exact, Complete
  <2>7. Unedited' /\ Going' /\ Counted'
    BY <2>1, <2>2, <2>4 DEF Unedited, Going, Counted
  <2>8. QED  BY <2>5, <2>6, <2>7
<1>8. CASE StartWithoutLocation \/ RequestLost \/ ServerError
  BY <1>1, <1>8
     DEF StartWithoutLocation, RequestLost, ServerError, Fault, Requesting, Unedited, Going, Exact, Counted
<1>9. CASE OpenTracker
  BY <1>1, <1>9 DEF OpenTracker, Unedited, Going, Exact, Counted, UrisOK
<1>10. CASE WriteTracker
  <2>1. uri # NoUri /\ uri # Torn /\ pc = "write"
    BY <1>10 DEF WriteTracker, ControlOK, UrisOK
  <2>2. QED  BY <1>1, <1>10, <2>1 DEF WriteTracker, Unedited, Going, Exact, Counted
<1>11. CASE SeekFile
  <2> DEFINE s == sessions[uri]
  <2>1. /\ pc = "seek" /\ uri # NoUri /\ length = Len(file) /\ pc' = "send"
        /\ UNCHANGED <<file, tracker, md5, length, uri, err, result, etag, oks>>
    BY <1>11 DEF SeekFile, ControlOK, Unedited
  <2>2. Known(s) /\ Len(file) \in Nat
    BY <1>s, <2>1 DEF Known, PartOf, ContentsOK
  <2>3. Complete(s) => pos' = length
    BY <1>11, <2>1 DEF SeekFile, Exact, ResumePoint
  <2>4. ~Complete(s) => pos' = Len(s.data) /\ pos' <= length
    <3>1. Len(s.data) \in Nat /\ Len(s.data) <= Len(file)
      BY <1>s, <2>1 DEF PartOf
    <3>2. QED  BY <1>11, <2>1, <2>2, <3>1 DEF SeekFile, Exact, ResumePoint
  <2>5. accepted' = TRUE /\ IF Complete(s) THEN UNCHANGED store ELSE Received(<<>>, length)
    BY <1>11, <2>2, <2>3, <2>4 DEF SeekFile
  <2>6. Unedited' /\ Going'
    BY <2>1 DEF Unedited, Going
  <2>7. CASE Complete(s)
    <3>1. UNCHANGED sessions
      BY <2>5, <2>7
    <3>2. Exact'
      BY <2>1, <2>2, <2>3, <2>5, <2>7, <3>1 DEF Exact, Complete
    <3>3. QED  BY <1>1, <2>1, <2>6, <3>1, <3>2 DEF Counted
  <2>8. CASE ~Complete(s)
    <3>1. <<>> \in Seq(Byte) /\ length \in Nat \union {Unknown}
      BY DEF NumbersOK
    <3>2. /\ sessions'[uri].data = s.data /\ sessions'[uri].total = length
          /\ sessions'[uri].alive = s.alive /\ Len(sessions') = Len(sessions)
          /\ \A id \in 1..Len(sessions) : id # uri => sessions'[id] = sessions[id]
      BY <1>s, <2>1, <2>5, <2>8, <3>1, ReceivedEffect, ConcatEmptySeq
    <3>3. Whole'
      <4>1. PartOf(file', sessions'[uri])
        BY <1>s, <2>1, <3>2 DEF PartOf
      <4>2. \A id \in 1..Len(sessions) : id # uri => PartOf(file', sessions'[id])
        BY <2>1, <3>2 DEF Whole, PartOf
      <4>3. QED  BY <3>2, <4>1, <4>2 DEF Whole
    <3>4. Exact'
      BY <2>1, <2>4, <2>5, <2>8, <3>2 DEF Exact
    <3>5. QED  BY <2>1, <2>6, <3>2, <3>3, <3>4 DEF Counted
  <2>9. QED  BY <2>7, <2>8
<1>12. CASE SendBytes
  <2> DEFINE s == sessions[uri]
             bytes == <<file[pos + 1]>>
  <2>1. /\ pc = "send" /\ pc' = "send" /\ uri # NoUri /\ length = Len(file) /\ accepted
        /\ pos < Len(file) /\ pos' = pos + 1 /\ pos \in Nat /\ Len(file) \in Nat
        /\ UNCHANGED <<file, tracker, md5, length, uri, err, result, etag, oks, accepted>>
    BY <1>12 DEF SendBytes, ControlOK, Unedited, Exact, NumbersOK, ContentsOK
  <2>2. s.alive
    BY <1>s, <2>1 DEF PartOf
  <2>3. Unedited' /\ Going'
    BY <2>1 DEF Unedited, Going
  <2>4. CASE Complete(s)
    <3>1. UNCHANGED sessions
      BY <1>12, <2>4 DEF SendBytes
    <3>2. Exact'
      BY <2>1, <2>4, <3>1 DEF Exact, Complete
    <3>3. QED  BY <1>1, <2>1, <2>3, <3>1, <3>2 DEF Counted
  <2>5. CASE ~Complete(s)
    <3>1. s.total = length /\ Len(s.data) = pos
      BY <2>1, <2>5 DEF Exact
    <3>2. pos + 1 \in 1..Len(file)
      BY <2>1, NextIndex
    <3>3. bytes \in Seq(Byte) /\ Len(bytes) = 1 /\ bytes[1] = file[pos + 1]
      BY <3>2 DEF ContentsOK
    <3>4. Received(bytes, length) /\ length \in Nat \union {Unknown}
      BY <1>12, <2>1, <2>2, <2>5, <3>1 DEF SendBytes, NumbersOK
    <3> HIDE DEF bytes
    <3>5. /\ sessions'[uri].data = s.data \o bytes /\ sessions'[uri].total = length
          /\ sessions'[uri].alive = s.alive /\ Len(sessions') = Len(sessions)
          /\ \A id \in 1..Len(sessions) : id # uri => sessions'[id] = sessions[id]
      BY <2>1, <3>3, <3>4, ReceivedEffect
    <3>6. /\ Len(s.data \o bytes) = pos + 1
          /\ \A i \in 1..pos : (s.data \o bytes)[i] = s.data[i]
          /\ (s.data \o bytes)[pos + 1] = file[pos + 1]
      <4>1. s.data \in Seq(Byte)
        BY <1>s, <2>1
      <4>2. QED  BY <3>1, <3>3, <4>1, OneMore
    <3>7. Whole'
      <4>1. PartOf(file', sessions'[uri])
        <5>1. Len(sessions'[uri].data) = pos + 1 /\ pos + 1 <= Len(file)
          BY <2>1, <3>5, <3>6
        <5>2. \A i \in 1..pos : s.data[i] = file[i]
          BY <1>s, <2>1, <3>1 DEF PartOf
        <5>3. \A i \in 1..pos + 1 : i \in 1..pos \/ i = pos + 1
          BY <2>1
        <5>4. \A i \in 1..pos + 1 : sessions'[uri].data[i] = file[i]
          BY <3>5, <3>6, <5>2, <5>3
        <5>5. QED  BY <2>1, <2>2, <3>5, <5>1, <5>4 DEF PartOf
      <4>2. \A id \in 1..Len(sessions) : id # uri => PartOf(file', sessions'[id])
        BY <2>1, <3>5 DEF Whole, PartOf
      <4>3. QED  BY <3>5, <4>1, <4>2 DEF Whole
    <3>8. Exact'
      BY <2>1, <3>5, <3>6 DEF Exact
    <3>9. QED  BY <2>1, <2>3, <3>5, <3>7, <3>8 DEF Counted
  <2>6. QED  BY <2>4, <2>5
<1>13. CASE EndOfFile
  <2>1. /\ pc = "send" /\ pos >= Len(file) /\ pos <= length /\ length = Len(file)
        /\ pos \in Nat /\ Len(file) \in Nat /\ accepted
        /\ Complete(sessions[uri]) \/ (sessions[uri].total = length /\ Len(sessions[uri].data) = pos)
    BY <1>13 DEF EndOfFile, Exact, Unedited, NumbersOK, ContentsOK
  <2>2. pos = length /\ Complete(sessions[uri])
    BY <2>1 DEF Complete
  <2>3. /\ pc' = "respond"
        /\ UNCHANGED <<sessions, file, tracker, md5, length, uri, err, result, etag, oks, accepted>>
    BY <1>13, <2>2 DEF EndOfFile
  <2>4. QED  BY <1>1, <2>1, <2>2, <2>3 DEF Unedited, Going, Exact, Counted, Complete
<1>14. CASE ReadFails \/ SendFails \/ ResponseUnclear
  BY <1>1, <1>14 DEF ReadFails, SendFails, ResponseUnclear, Fault, Unedited, Going, Exact, Counted
<1>15. CASE Respond
  <2>1. pc = "respond" /\ uri # NoUri /\ accepted /\ Complete(sessions[uri])
    BY <1>15 DEF Respond, ControlOK, Exact
  <2>2. sessions[uri].alive /\ sessions[uri].data = file
    BY <1>s, <2>1, CompleteIsFile DEF PartOf, ContentsOK
  <2>3. QED  BY <1>1, <1>15, <2>1, <2>2 DEF Respond, Unedited, Going, Exact, Counted
<1>16. CASE Requery
  <2>1. pc = "requery" /\ uri # NoUri /\ length = Len(file)
    BY <1>16 DEF Requery, ControlOK, Unedited
  <2>2. Known(sessions[uri])
    BY <1>s, <2>1 DEF Known, PartOf
  <2>3. QED  BY <1>1, <1>16, <2>1, <2>2 DEF Requery, Unedited, Going, Exact, Counted
<1>17. CASE RemoveTracker
  BY <1>1, <1>17 DEF RemoveTracker, Unedited, Going, Exact, Counted, NumbersOK, ContentsOK
<1>18. CASE RemoveTrackerFails
  BY <1>1, <1>18 DEF RemoveTrackerFails, Fault, Unedited, Going, Exact, Counted
<1>19. CASE CheckFinalMd5
  BY <1>1, <1>19 DEF CheckFinalMd5, Unedited, Going, Exact, Counted
<1>20. CASE Retry
  BY <1>1, <1>20 DEF Retry, Unedited, Going, Exact, Counted
<1>21. CASE Crash
  BY <1>1, <1>21 DEF Crash, Fault, Unedited, Going, Exact, Counted
<1>22. CASE UNCHANGED vars
  BY <1>1, <1>22 DEF vars, Unedited, Going, Exact, Counted, Complete
<1>23. QED
  BY <1>2, <1>3, <1>4, <1>5, <1>6, <1>7, <1>8, <1>9, <1>10, <1>11, <1>12, <1>13, <1>14, <1>15,
     <1>16, <1>17, <1>18, <1>19, <1>20, <1>21, <1>22, CalmOnly
     DEF Next, Step

LEMMA CalmAlways == Spec => [](TypeOK /\ CalmInv)
<1>1. Init => TypeOK /\ CalmInv
  BY TypeInit, CalmInit
<1>2. TypeOK /\ CalmInv /\ [Next]_vars => (TypeOK /\ CalmInv)'
  BY TypeStep, CalmStep
<1>3. QED  BY <1>1, <1>2, PTL DEF Spec

\* While the file is not edited and no session is lost, no upload of any size
\* is aborted: each attempt resumes exactly where the server stopped.
THEOREM AbortNeedsCause == Spec => []AbortHasCause
<1>1. CalmInv => AbortHasCause
  BY DEF CalmInv, Going, AbortHasCause
<1>2. QED  BY <1>1, CalmAlways, PTL

\* And no upload is started a second time, whenever its runs end.
THEOREM StartsOnce == Spec => []UploadStartsOnce
<1>1. TypeOK /\ CalmInv => UploadStartsOnce
  BY DEF TypeOK, NumbersOK, ContentsOK, CalmInv, Counted, UploadStartsOnce
<1>2. QED  BY <1>1, CalmAlways, PTL
=============================================================================
