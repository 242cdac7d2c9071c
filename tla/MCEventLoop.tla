---------------------------- MODULE MCEventLoop ----------------------------
(***************************************************************************)
(* The instance of EventLoop that TLC checks: two other threads, two I/O   *)
(* channels and three functors, enough for a functor to be queued while a  *)
(* batch runs, while another thread stands between its push and its wakeup *)
(* and while the loop is on its way into epoll_wait.                       *)
(***************************************************************************)
EXTENDS EventLoop
=============================================================================
