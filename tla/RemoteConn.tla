----------------------------- MODULE RemoteConn -----------------------------
(***************************************************************************)
(* remotePeerConn: one connection that several goroutines call.  Send and  *)
(* Receive hold a mutex for the whole call, and hand the connection itself *)
(* to WriteFrame and ReadFrame, which call Write and Read on it.  A Go     *)
(* mutex is not re-entrant.                                                *)
(***************************************************************************)
EXTENDS Integers

CONSTANTS Caller,     \* goroutines that share the connection
          chunkSize,
          DataLen,    \* lengths of data a caller passes; NoData stands for nil
          MaxBytes    \* bound on the bytes written to the connection

NoData == -1
None == "none"

VARIABLES at,       \* where each goroutine is: its call, and the place in it
          data,     \* len(data) of the call
          result,   \* how its last call ended
          writeMu, readMu,  \* who holds the mutexes
          wrote     \* bytes written to conn

connVars == <<at, data, result, writeMu, readMu, wrote>>

RemoteConnInit ==
  /\ at = [c \in Caller |-> "idle"]
  /\ data = [c \in Caller |-> NoData]
  /\ result = [c \in Caller |-> None]
  /\ writeMu = None /\ readMu = None
  /\ wrote = 0

Move(c, from, to) == at[c] = from /\ at' = [at EXCEPT ![c] = to]

Begin(c, call) == /\ Move(c, "idle", call)
                  /\ \E n \in DataLen : data' = [data EXCEPT ![c] = n]
                  /\ UNCHANGED <<result, writeMu, readMu, wrote>>

(* The call returns and its deferred Unlock runs.                          *)
Return(c, from, res) == /\ Move(c, from, "idle")
                        /\ result' = [result EXCEPT ![c] = res]
                        /\ writeMu' = IF writeMu = c THEN None ELSE writeMu
                        /\ readMu' = IF readMu = c THEN None ELSE readMu
                        /\ UNCHANGED data

Lock(c, from, to) == /\ Move(c, from, to)
                     /\ writeMu = None /\ writeMu' = c
                     /\ UNCHANGED <<data, result, readMu, wrote>>

RLock(c, from, to) == /\ Move(c, from, to)
                      /\ readMu = None /\ readMu' = c
                      /\ UNCHANGED <<data, result, writeMu, wrote>>

(* conn.Write; the times of the last operations are left out.              *)
ConnWrites(n) == /\ wrote + n <= MaxBytes
                 /\ wrote' = wrote + n

ConnFails == UNCHANGED wrote

-----------------------------------------------------------------------------
(* Write and Read as other packages call them.                             *)

CallWrite(c) == Begin(c, "Write")

Write(c) == \/ Lock(c, "Write", "write")
            \/ Return(c, "write", "ok") /\ ConnWrites(1)
            \/ Return(c, "write", "error") /\ ConnFails

CallRead(c) == Begin(c, "Read")

Read(c) == \/ RLock(c, "Read", "read")
           \/ Return(c, "read", "ok") /\ UNCHANGED wrote
           \/ Return(c, "read", "error") /\ ConnFails

-----------------------------------------------------------------------------
(* Send: the frame through pr.Write, then the data through pr.write.       *)

CallSend(c) == Begin(c, "Send")

SendLocks(c) == Lock(c, "Send", "send")

SendRefuses(c) == /\ data[c] > chunkSize
                  /\ Return(c, "send", "ErrChunkSizeExceeded") /\ ConnFails

(* WriteFrame: an encoding that fails returns, any other calls pr.Write.   *)
SendFrame(c) == /\ data[c] <= chunkSize
                /\ \/ Return(c, "send", "error") /\ ConnFails
                   \/ /\ Move(c, "send", "sendFrame")
                      /\ UNCHANGED <<data, result, writeMu, readMu, wrote>>

FrameLocks(c) == Lock(c, "sendFrame", "frame")

(* pr.Write unlocks when it returns.                                       *)
FrameWritten(c) == /\ Move(c, "frame", "sendData")
                   /\ writeMu' = None
                   /\ ConnWrites(1)
                   /\ UNCHANGED <<data, result, readMu>>

FrameFails(c) == Return(c, "frame", "error") /\ ConnFails

(* No data, no bytes where there should be, or the data.                   *)
SendData(c) == \/ /\ data[c] = NoData
                  /\ Return(c, "sendData", "ok") /\ ConnFails
               \/ /\ data[c] = 0
                  /\ Return(c, "sendData", "error") /\ ConnFails
               \/ /\ data[c] > 0
                  /\ \/ Return(c, "sendData", "ok") /\ ConnWrites(data[c])
                     \/ Return(c, "sendData", "error") /\ ConnFails

Send(c) == \/ SendLocks(c) \/ SendRefuses(c) \/ SendFrame(c)
           \/ FrameLocks(c) \/ FrameWritten(c) \/ FrameFails(c) \/ SendData(c)

-----------------------------------------------------------------------------
(* Receive: the frame through pr.Read, then the data it announces.         *)

CallReceive(c) == Begin(c, "Receive")

ReceiveLocks(c) == RLock(c, "Receive", "receiveFrame")

FrameRLocks(c) == RLock(c, "receiveFrame", "readFrame")

FrameRead(c) == \/ /\ Move(c, "readFrame", "receiveData")
                   /\ readMu' = None
                   /\ UNCHANGED <<data, result, writeMu, wrote>>
                \/ Return(c, "readFrame", "error") /\ ConnFails

(* "size <= len(data)" refuses every size the buffer could hold.           *)
Accepted(c, size) == ~(size > chunkSize \/ size <= data[c])

(* The frame's message is not handed on.  Only two kinds of message come   *)
(* with a size; reading past the end of a buffer made to length panics.    *)
ReceiveData(c) ==
  \/ /\ data[c] = NoData
     /\ Return(c, "receiveData", "ok") /\ ConnFails
  \/ /\ data[c] # NoData
     /\ \/ Return(c, "receiveData", "ErrUnexpectedMessageType")
        \/ \E size \in DataLen \ {NoData} :
             Return(c, "receiveData", IF Accepted(c, size) THEN "panic" ELSE "ErrChunkSizeExceeded")
     /\ ConnFails

Receive(c) == ReceiveLocks(c) \/ FrameRLocks(c) \/ FrameRead(c) \/ ReceiveData(c)

RemoteConnNext == \E c \in Caller : \/ CallWrite(c) \/ CallRead(c) \/ CallSend(c) \/ CallReceive(c)
                                    \/ Write(c) \/ Read(c) \/ Send(c) \/ Receive(c)

(* Every goroutine runs, and the connection takes what is written to it.   *)
RemoteConnSpec == /\ RemoteConnInit /\ [][RemoteConnNext]_connVars
                  /\ \A c \in Caller : SF_connVars(Send(c))

-----------------------------------------------------------------------------
(* "chunk streaming loop ... MulticastChunkData(bytes) ...                 *)
(* deliverChunkData(...)": a Send comes back to the caller, who sends      *)
(* chunk after chunk in one loop, whatever the other goroutines that share *)
(* the connection are doing.                                               *)
SendReturns == \A c \in Caller : at[c] = "send" ~> at[c] = "idle"
=============================================================================
