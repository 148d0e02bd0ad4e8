---------------------------- MODULE MCWorkerPool ----------------------------
(* WorkerPool with a few requests and workers: see worker_pool.cfg.        *)
EXTENDS WorkerPool

Big   == [quality |-> "2160p", codec |-> "other", size |-> 2]
Small == [quality |-> "1080p", codec |-> "h265", size |-> 1]

\* Nothing, or two releases of which the tracker lists the lesser one first.
SmallPages == {<< >>, <<Small, Big>>}

\* Two trackers of the same priority, which is the default.
EqualPriorities == <<1, 1>>
=============================================================================
