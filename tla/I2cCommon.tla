----------------------------- MODULE I2cCommon -----------------------------
(* What the master and the slave engine of hal_i2c share: the role of an    *)
(* instance and its ON bit.                                                 *)
EXTENDS Naturals, Sequences

VARIABLES
  role,   \* g_role: which engine owns the instance
  on      \* CON1.ON

Roles == {"none", "master", "slave"}

=============================================================================
