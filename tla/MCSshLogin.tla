----------------------------- MODULE MCSshLogin -----------------------------
EXTENDS SshLogin
=============================================================================
