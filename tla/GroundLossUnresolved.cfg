CONSTANTS
  tel = tel
  rad = rad
  Sensor = {tel}
  DataFault = {"CorruptedData", "DelayedData"}
  MaxErrors = 4
  MaxFaults = 2
SPECIFICATION Spec
PROPERTY LossOfContactResolved
