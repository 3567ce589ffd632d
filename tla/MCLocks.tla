------------------------------- MODULE MCLocks -------------------------------
EXTENDS Locks, TLC

\* Semaphore::lock outside; inside of it the lock of readyQ, or protect(): down()
\* calls block() with its lock held (semaphore.cc:16, threads.h:95, 103).
MCLocks == {"semaphore", "queue", "protect"}
MCKind == "semaphore" :> "returns" @@ "queue" :> "keeps" @@ "protect" :> "none"
MCRank == "semaphore" :> 0 @@ "queue" :> 1 @@ "protect" :> 2
=============================================================================
