-------------------------------- MODULE I2c --------------------------------
(* The two engines of one I2C instance: they share its role and its ON bit. *)
EXTENDS I2cMaster, I2cSlave

CONSTANT CrossDeinit  \* whether a caller releases a live master as if it were a slave

i2cVars == <<masterVars, slaveOnly>>

\* A slave that is switched on or off resets the controller the master uses.
ControllerOff == req' = {} /\ stat' = {} /\ host' = FALSE /\ due' = <<>> /\ UNCHANGED faults

SlaveSide ==
  \/ (SlaveInit \/ (SlaveDeinit /\ (role = "master" => CrossDeinit))) /\ ~Busy /\ ControllerOff /\ UNCHANGED engine
  \/ (SlaveHandler \/ Bus) /\ UNCHANGED engine /\ UNCHANGED controller

I2cInit == MasterInitState /\ SlaveInitState
I2cNext == SlaveSide \/ (MasterNext /\ UNCHANGED slaveOnly)

\* A call goes on, and the tick of the timer runs.
I2cFairness ==
  /\ WF_i2cVars(Thread /\ UNCHANGED slaveOnly)
  /\ WF_i2cVars(MasterTick /\ UNCHANGED slaveOnly)
I2cSpec == I2cInit /\ [][I2cNext]_i2cVars /\ I2cFairness

I2cTypeOK == MasterTypeOK /\ SlaveTypeOK

\* "An instance that is live as a master must be released with
\* nora_i2c_deinit() first": the two engines are never both live on an instance.
OneRole == ~(initialized /\ active)

=============================================================================
