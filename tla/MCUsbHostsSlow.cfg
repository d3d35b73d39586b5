SPECIFICATION MCUsbHostsSlow
CONSTANTS
  Node = {d1, d2, d3}
  NoNode = NoNode
  ohFast = FALSE
PROPERTIES OhFinished
